---- MODULE Spec2Model ----
(***************************************************************************)
(* Notion-Law-Data-Collector: the request handlers that relay a caller's   *)
(* request to the Notion API, with the data-source lookup and its cache.   *)
(*                                                                         *)
(* One behaviour is one process (one deployed function): `module` names    *)
(* the handler file the process runs, `dataSourceCache` is that module's   *)
(* module-level Map, `reqs` the bag of the invocations received so far,    *)
(* each with the handler's locals and what it has sent.  JavaScript        *)
(* runs a handler without interleaving up to its next `await`, so one      *)
(* action is one such run: from the invocation or from the return of an    *)
(* awaited call up to the next awaited call or to the response.            *)
(* `lastResolved` is a history variable: for each database id, the first   *)
(* data source of the latest read of it that listed one.  `probe` holds    *)
(* the argument and the result of a pure function in the specifications    *)
(* that apply one; the handlers leave it alone.  `nodeEnv` is             *)
(* process.env.NODE_ENV, which sendError reads.                            *)
(***************************************************************************)
EXTENDS Integers, Sequences, FiniteSets, Bags, TLC

VARIABLES module, credential, nodeEnv, dataSourceCache, reqs, lastResolved, probe

vars == <<module, credential, nodeEnv, dataSourceCache, reqs, lastResolved, probe>>

-----------------------------------------------------------------------------
(* Bounds *)

\* invocations one process receives in a behaviour
MaxRequests == 2

\* invocations of a handler under api/ in a behaviour: these handlers keep
\* nothing from one invocation to the next
MaxApiRequests == 1

-----------------------------------------------------------------------------
(* Strings are sequences of one-character strings. *)

HexDigits ==
  {"0", "1", "2", "3", "4", "5", "6", "7", "8", "9",
   "a", "b", "c", "d", "e", "f", "A", "B", "C", "D", "E", "F"}

\* databaseId.replace(/-/g, '')
RECURSIVE RemoveDashes(_)
RemoveDashes(s) ==
  IF s = <<>> THEN <<>>
  ELSE IF Head(s) = "-" THEN RemoveDashes(Tail(s))
       ELSE <<Head(s)>> \o RemoveDashes(Tail(s))

IdLength == 32

\* a check that takes up to 32 hexadecimal characters: {1,32} for {32}
IsValidDatabaseIdAtMost(s) ==
  LET clean == RemoveDashes(s)
  IN  Len(clean) >= 1 /\ Len(clean) <= 32 /\ \A i \in 1..Len(clean) : clean[i] \in HexDigits

\* the check without its i flag: /^[a-f0-9]{32}$/
IsValidDatabaseIdCaseSensitive(s) ==
  LET clean == RemoveDashes(s)
  IN  Len(clean) = 32
      /\ \A i \in 1..Len(clean) :
            clean[i] \in {"0", "1", "2", "3", "4", "5", "6", "7", "8", "9",
                          "a", "b", "c", "d", "e", "f"}

\* /^[a-f0-9]{32}$/i.test(databaseId.replace(/-/g, ''))
IsValidDatabaseId(s) ==
  LET clean == RemoveDashes(s)
  IN  Len(clean) = IdLength /\ \A i \in 1..Len(clean) : clean[i] \in HexDigits

\* the id of the spec's end-to-end scenario, 40c4cef5c8cd4cb4891a35c3710df6e9
PlainId ==
  <<"4", "0", "c", "4", "c", "e", "f", "5", "c", "8", "c", "d", "4", "c", "b", "4",
    "8", "9", "1", "a", "3", "5", "c", "3", "7", "1", "0", "d", "f", "6", "e", "9">>

\* the same id as Notion prints it, 8-4-4-4-12
DashedId ==
  SubSeq(PlainId, 1, 8) \o <<"-">> \o SubSeq(PlainId, 9, 12) \o <<"-">> \o
  SubSeq(PlainId, 13, 16) \o <<"-">> \o SubSeq(PlainId, 17, 20) \o <<"-">> \o
  SubSeq(PlainId, 21, 32)

\* "not-an-id"
NotAnId == <<"n", "o", "t", "-", "a", "n", "-", "i", "d">>

\* one character short
ShortId == SubSeq(PlainId, 1, 31)

\* the empty string, falsy like an absent field
EmptyId == <<>>

-----------------------------------------------------------------------------
(* Inputs *)

\* a property map, as the set of its entries: the property's name and the
\* Notion type its value is written in
TitleAsTitle == {[name |-> "Title", type |-> "title"]}
TitleAsRichText == {[name |-> "Title", type |-> "rich_text"]}
NameAsTitle == {[name |-> "Name", type |-> "title"]}
NoEntries == {}

\* a JSON body is a record; a field the caller left out is not in its DOMAIN
Body(id, props) == [databaseId |-> id, properties |-> props]
BodyWithoutProperties(id) == [databaseId |-> id]
BodyWithoutId(props) == [properties |-> props]

Has(obj, field) == field \in DOMAIN obj

\* !databaseId: the field is absent or the empty string
Falsy(obj, field) == ~Has(obj, field) \/ (field = "databaseId" /\ obj[field] = EmptyId)

\* a check that takes any non-empty property map
HasAnyProperty(props) == props # {}

\* properties.Title is truthy: the map has an entry named Title
HasTitle(props) == \E e \in props : e.name = "Title"

\* the bodies the model sends to a handler that reads properties
CreateBodies ==
  {Body(PlainId, TitleAsTitle), Body(DashedId, TitleAsRichText),
   Body(PlainId, NameAsTitle), Body(PlainId, NoEntries),
   Body(NotAnId, TitleAsTitle), Body(ShortId, TitleAsTitle), Body(EmptyId, TitleAsTitle),
   BodyWithoutProperties(NotAnId), BodyWithoutId(TitleAsTitle)}

\* and to one that reads only databaseId
QueryBodies ==
  {[databaseId |-> PlainId], [databaseId |-> DashedId], [databaseId |-> NotAnId],
   [databaseId |-> ShortId], [databaseId |-> EmptyId], [page_size |-> 5]}

\* event.body of a Lambda event: absent, not JSON, or the text of a body
EventsOf(bodies) ==
  {[httpMethod |-> "POST", bodyText |-> "json", body |-> b] : b \in bodies}
  \cup {[httpMethod |-> m, bodyText |-> "json", body |-> [databaseId |-> PlainId]] :
          m \in {"OPTIONS", "GET"}}
  \cup {[httpMethod |-> "POST", bodyText |-> t, body |-> [databaseId |-> PlainId]] :
          t \in {"missing", "garbled"}}

-----------------------------------------------------------------------------
(* What an awaited axios call settles with *)

\* a response; axios rejects the promise when status is not 2xx.  `markup`
\* is how the body starts when it is a string of markup, "" when it is JSON
Response(status, markup, sources) ==
  [kind |-> "response", status |-> status, code |-> "", markup |-> markup,
   data_sources |-> sources]

\* no response at all: error.code is set, error.response is not
NetworkError(code) ==
  [kind |-> "error", status |-> 0, code |-> code, markup |-> "", data_sources |-> <<>>]

NoOutcome ==
  [kind |-> "none", status |-> 0, code |-> "", markup |-> "", data_sources |-> <<>>]

Json == ""
HtmlPage == "<!DOCTYPE html>"
LowerHtmlPage == "<!doctype html>"

\* the body `null`, which axios parses into response.data === null
NullBody == "null"

\* String.prototype.toLowerCase on the start of a body
ToLowerCase(markup) == IF markup = HtmlPage THEN LowerHtmlPage ELSE markup

\* response.data of a successful query: a page of results
UpstreamPage == [results |-> <<"page_1">>, next_cursor |-> "cursor_2", has_more |-> TRUE]

DataSourceLists == {<<>>, <<"ds_1">>, <<"ds_2", "ds_1">>}

\* GET /databases/{id}
ReadOutcomes ==
  {Response(200, Json, l) : l \in DataSourceLists}
  \cup {Response(s, Json, <<>>) : s \in {401, 404, 500}}
  \cup {Response(502, HtmlPage, <<>>)}
  \cup {NetworkError("ETIMEDOUT")}

\* POST /pages, POST /data_sources/{id}/query
ActOutcomes ==
  {Response(200, Json, <<>>)}
  \cup {Response(s, Json, <<>>) : s \in {400, 401, 500}}
  \cup {Response(502, HtmlPage, <<>>)}
  \cup {NetworkError("ETIMEDOUT")}

\* what the handlers under api/ are checked against besides: a page of
\* HTML with status 200, one that opens in lower case, a server error whose
\* body is `null`, and the timeout of the axios client
ApiReadOutcomes ==
  ReadOutcomes
  \cup {Response(200, HtmlPage, <<>>), Response(200, LowerHtmlPage, <<>>),
        Response(502, LowerHtmlPage, <<>>), Response(500, NullBody, <<>>),
        NetworkError("ECONNABORTED")}

ApiActOutcomes ==
  ActOutcomes
  \cup {Response(200, HtmlPage, <<>>), Response(200, LowerHtmlPage, <<>>),
        Response(502, LowerHtmlPage, <<>>), Response(500, NullBody, <<>>),
        NetworkError("ECONNABORTED")}

\* axios resolves the promise (default validateStatus: 2xx)
Resolves(o) == o.kind = "response" /\ o.status >= 200 /\ o.status < 300

\* error.response is set
HasResponse(o) == o.kind = "response"

-----------------------------------------------------------------------------
(* Upstream calls a handler issues *)

GetDatabase(id) == [method |-> "GET", path |-> <<"databases", id>>]

PostPage(parent, props) ==
  [method |-> "POST", path |-> <<"pages">>,
   data |-> [parent |-> parent, properties |-> props]]

PostQuery(ds) == [method |-> "POST", path |-> <<"data_sources", ds, "query">>]

IsRead(c) == c.method = "GET" /\ c.path[1] = "databases" /\ Len(c.path) = 2
IsCreate(c) == c.method = "POST" /\ c.path[1] = "pages"
IsQuery(c) == c.method = "POST" /\ c.path[1] = "data_sources"
IsAct(c) == IsCreate(c) \/ IsQuery(c)

-----------------------------------------------------------------------------
(* Requests *)

NoResponse == [statusCode |-> 0]

\* a Lambda response: statusCode and the JSON body
Reply(status, body) == [statusCode |-> status, body |-> body]

LambdaError(status, error, details) ==
  Reply(status, [error |-> error, details |-> details])

NewRequest(event) ==
  [event |-> event, pc |-> "start", cacheHit |-> FALSE, dataSourceId |-> "",
   thrown |-> <<>>, read |-> NoOutcome, act |-> NoOutcome, calls |-> <<>>,
   fallback |-> FALSE, original |-> NoOutcome, response |-> NoResponse, sent |-> 0]

\* res.status(..).json(..), or the handler's return value: one more response
Respond(req, resp) ==
  [req EXCEPT !.pc = "done", !.response = resp, !.sent = @ + 1]

\* what a catch block yields when it throws before it sends anything
Uncaught == [statusCode |-> 0, uncaught |-> "TypeError: Cannot read properties of null (reading 'message')"]

\* the handler's promise rejects: nothing was sent
Reject(req) == [req EXCEPT !.pc = "rejected"]

\* the handler ends with the response its last step produced, or with the
\* exception that step threw
Finish(req, resp) == IF resp = Uncaught THEN Reject(req) ELSE Respond(req, resp)

Issue(req, call, pc) == [req EXCEPT !.pc = pc, !.calls = Append(@, call)]

\* the bag of invocations with one more, and with one of them a step further
Arrived(bag, req) == bag (+) SetToBag({req})
Stepped(bag, old, new) == (bag (-) SetToBag({old})) (+) SetToBag({new})

-----------------------------------------------------------------------------
(* getDataSourceId and its cache (lambda-create-page.js, lambda query)  *)

EmptyCache == [k \in {} |-> ""]

\* dataSourceCache.has(databaseId)
CacheHas(cache, id) == id \in DOMAIN cache

\* a resolver that forgets to store what it resolved
CacheSetDropped(cache, id, ds) == cache

\* a resolver that keeps the first id it stored
CacheSetIfAbsent(cache, id, ds) ==
  [k \in DOMAIN cache \cup {id} |-> IF k \in DOMAIN cache THEN cache[k] ELSE ds]

\* dataSourceCache.set(databaseId, dataSourceId)
CacheSet(cache, id, ds) ==
  [k \in DOMAIN cache \cup {id} |-> IF k = id THEN ds ELSE cache[k]]

\* !dataSources || dataSources.length === 0; a body that is a string has no
\* data_sources field
HasNoDataSources(o) == o.markup # Json \/ Len(o.data_sources) = 0

\* the last data source for the first
LastDataSource(o) == o.data_sources[Len(o.data_sources)]

\* dataSources[0].id
FirstDataSource(o) == o.data_sources[1]

\* a resolver that stores dataSources[0] before it looks at the list
ResolveFromReadStoringFirst(cache, id, o) ==
  IF ~Resolves(o)
  THEN [cache |-> cache, dataSourceId |-> "", thrown |-> <<"axios", o.status, o.code>>]
  ELSE IF HasNoDataSources(o)
  THEN [cache |-> [k \in DOMAIN cache \cup {id} |-> IF k = id THEN "" ELSE cache[k]],
        dataSourceId |-> "",
        thrown |-> <<"No data sources available for this database">>]
  ELSE [cache |-> [k \in DOMAIN cache \cup {id} |->
                     IF k = id THEN FirstDataSource(o) ELSE cache[k]],
        dataSourceId |-> FirstDataSource(o), thrown |-> <<>>]

\* a resolver that drops the entry of an id whose read failed
ResolveFromReadEvicting(cache, id, o) ==
  IF ~Resolves(o) \/ HasNoDataSources(o)
  THEN [cache |-> [k \in DOMAIN cache \ {id} |-> cache[k]], dataSourceId |-> "",
        thrown |-> <<"axios", o.status, o.code>>]
  ELSE [cache |-> [k \in DOMAIN cache \cup {id} |->
                     IF k = id THEN FirstDataSource(o) ELSE cache[k]],
        dataSourceId |-> FirstDataSource(o), thrown |-> <<>>]

\* a resolver whose cache holds one entry, the id it resolved last
ResolveFromReadClearing(cache, id, o) ==
  IF ~Resolves(o)
  THEN [cache |-> cache, dataSourceId |-> "", thrown |-> <<"axios", o.status, o.code>>]
  ELSE IF HasNoDataSources(o)
  THEN [cache |-> cache, dataSourceId |-> "",
        thrown |-> <<"No data sources available for this database">>]
  ELSE [cache |-> [k \in {id} |-> FirstDataSource(o)],
        dataSourceId |-> FirstDataSource(o), thrown |-> <<>>]

\* getDataSourceId from the return of its axios.get to its return or throw
ResolveFromRead(cache, id, o) ==
  IF ~Resolves(o)
  THEN [cache |-> cache, dataSourceId |-> "", thrown |-> <<"axios", o.status, o.code>>]
  ELSE IF HasNoDataSources(o)
  THEN [cache |-> cache, dataSourceId |-> "",
        thrown |-> <<"No data sources available for this database">>]
  ELSE [cache |-> CacheSet(cache, id, FirstDataSource(o)),
        dataSourceId |-> FirstDataSource(o), thrown |-> <<>>]

-----------------------------------------------------------------------------
(* The Lambda handlers: lambda-create-page.js and the Lambda query handler *)

LambdaCreate == "lambda-create-page"
LambdaQuery == "lambda-query-database"
LambdaModules == {LambdaCreate, LambdaQuery}

\* the handler from its entry to its first await: every early return
LambdaValidate(mod, event) ==
  LET body == event.body
  IN  IF event.httpMethod = "OPTIONS"
      THEN Reply(200, [message |-> "CORS preflight"])
      ELSE IF event.httpMethod # "POST"
      THEN LambdaError(405, "Method not allowed", "not allowed for this endpoint")
      ELSE IF event.bodyText = "missing"
      THEN LambdaError(400, "Missing request body",
                       "Request body is required for this endpoint")
      ELSE IF event.bodyText = "garbled"
      THEN LambdaError(400, "Invalid JSON in request body", "SyntaxError")
      ELSE IF mod = LambdaCreate /\ (Falsy(body, "databaseId") \/ ~Has(body, "properties"))
      THEN LambdaError(400, "Missing required fields",
                       "databaseId and properties are required")
      ELSE IF mod = LambdaQuery /\ Falsy(body, "databaseId")
      THEN LambdaError(400, "Missing required field", "databaseId is required")
      ELSE IF ~IsValidDatabaseId(body.databaseId)
      THEN LambdaError(400, "Invalid database ID format",
                       "Database ID should be 32 hexadecimal characters")
      ELSE IF mod = LambdaCreate /\ ~HasTitle(body.properties)
      THEN LambdaError(400, "Title property is required",
                       "A Title property must be provided")
      ELSE NoResponse

\* the catch around getNotionToken()
LambdaTokenFailure ==
  LambdaError(500, "Authentication configuration error",
              "Failed to retrieve API credentials")

\* the catch around getDataSourceId()
LambdaResolveFailure ==
  LambdaError(400, "Database access error",
              "Could not access database or database has no data sources")

\* the call the handler makes once it holds the data source id
LambdaActCall(mod, req, ds) ==
  IF mod = LambdaCreate
  THEN PostPage([type |-> "data_source_id", data_source_id |-> ds],
                req.event.body.properties)
  ELSE PostQuery(ds)

\* the handler from the return of its POST to its response
LambdaActReply(mod, req, o) ==
  IF Resolves(o)
  THEN IF mod = LambdaCreate
       THEN Reply(201, [id |-> "upstream",
                        _metadata |-> [database_id |-> req.event.body.databaseId,
                                       data_source_id |-> req.dataSourceId]])
       ELSE Reply(200, [results |-> UpstreamPage.results,
                        next_cursor |-> UpstreamPage.next_cursor,
                        has_more |-> UpstreamPage.has_more,
                        _metadata |-> [database_id |-> req.event.body.databaseId,
                                       data_source_id |-> req.dataSourceId]])
  ELSE IF HasResponse(o)
  THEN IF o.status = 401
       THEN LambdaError(401, "Invalid Notion API key",
                        "The API key is invalid or has been revoked")
       ELSE IF o.status = 404
       THEN LambdaError(404, "Database not found or integration lacks access",
                        "The database does not exist or the integration does not have access")
       ELSE IF o.status = 400
       THEN LambdaError(400, IF mod = LambdaCreate THEN "Invalid request data"
                                                   ELSE "Invalid query parameters",
                        "notionError.message")
       ELSE LambdaError(o.status, "Notion API error", "notionError.message")
  ELSE LambdaError(500, "Internal server error", "An unexpected error occurred")

\* a handler that sends its POST along with the read instead of after it
LambdaResolveEager(mod, req, cache) ==
  LET id == req.event.body.databaseId
  IN  IF CacheHas(cache, id)
      THEN Issue([req EXCEPT !.cacheHit = TRUE, !.dataSourceId = cache[id]],
                 LambdaActCall(mod, req, cache[id]), "act")
      ELSE Issue(Issue(req, GetDatabase(id), "read"), LambdaActCall(mod, req, "ds_1"), "read")

\* getDataSourceId up to its cache check, and the handler's next call
LambdaResolve(mod, req, cache) ==
  LET id == req.event.body.databaseId
  IN  IF CacheHas(cache, id)
      THEN Issue([req EXCEPT !.cacheHit = TRUE, !.dataSourceId = cache[id]],
                 LambdaActCall(mod, req, cache[id]), "act")
      ELSE Issue(req, GetDatabase(id), "read")

LambdaEvents ==
  IF module = LambdaCreate THEN EventsOf(CreateBodies) ELSE EventsOf(QueryBodies)

\* an invocation arrives and runs to its first await, secretsClient.send
LambdaInvoke(event) ==
  /\ module \in LambdaModules
  /\ BagCardinality(reqs) < MaxRequests
  /\ LET req == NewRequest(event)
         early == LambdaValidate(module, event)
     IN  reqs' = Arrived(reqs,
                   IF early # NoResponse THEN Respond(req, early)
                   ELSE IF credential = "unset" THEN Respond(req, LambdaTokenFailure)
                   ELSE [req EXCEPT !.pc = "token"])
  /\ UNCHANGED <<module, credential, nodeEnv, dataSourceCache, lastResolved, probe>>

\* Secrets Manager answers: the token, or an error
LambdaTokenReturn(req, ok) ==
  /\ module \in LambdaModules
  /\ req.pc = "token"
  /\ reqs' = Stepped(reqs, req,
                IF ok THEN LambdaResolve(module, req, dataSourceCache)
                ELSE Respond(req, LambdaTokenFailure))
  /\ UNCHANGED <<module, credential, nodeEnv, dataSourceCache, lastResolved, probe>>

\* GET /databases/{id} settles: getDataSourceId ends, the handler goes on
LambdaReadReturn(req, o) ==
  /\ module \in LambdaModules
  /\ req.pc = "read"
  /\ LET id == req.event.body.databaseId
         res == ResolveFromRead(dataSourceCache, id, o)
         got == [req EXCEPT !.read = o, !.thrown = res.thrown,
                            !.dataSourceId = res.dataSourceId]
     IN  /\ dataSourceCache' = res.cache
         /\ reqs' = Stepped(reqs, req,
                       IF res.thrown # <<>> THEN Respond(got, LambdaResolveFailure)
                       ELSE Issue(got, LambdaActCall(module, got, res.dataSourceId), "act"))
         /\ lastResolved' =
              IF Resolves(o) /\ o.markup = Json /\ o.data_sources # <<>>
              THEN [k \in DOMAIN lastResolved \cup {id} |->
                      IF k = id THEN o.data_sources[1] ELSE lastResolved[k]]
              ELSE lastResolved
  /\ UNCHANGED <<module, credential, nodeEnv, probe>>

\* a handler that sends its POST once more when the first one failed
LambdaAfterActRetrying(mod, req, o) ==
  IF ~Resolves(o) /\ Len(req.calls) < 3
  THEN Issue(req, req.calls[Len(req.calls)], "act")
  ELSE Respond([req EXCEPT !.act = o], LambdaActReply(mod, req, o))

\* the handler from the return of its POST to its end
LambdaAfterAct(mod, req, o) ==
  Respond([req EXCEPT !.act = o], LambdaActReply(mod, req, o))

\* POST /pages or POST /data_sources/{id}/query settles
LambdaActReturn(req, o) ==
  /\ module \in LambdaModules
  /\ req.pc = "act"
  /\ reqs' = Stepped(reqs, req, LambdaAfterAct(module, req, o))
  /\ UNCHANGED <<module, credential, nodeEnv, dataSourceCache, lastResolved, probe>>

-----------------------------------------------------------------------------
(* The Lambda proxy: it forwards a request on the path of its one database *)
(* to the Notion API and returns what comes back.                          *)

LambdaProxy == "lambda-proxy"

\* DATABASE_ID
DATABASE_ID == PlainId

\* event.path without '/lambda-proxy/': the query of the database, the same
\* with the id in its dashed spelling, and the pages endpoint
ProxyPaths == {<<"databases", PlainId, "query">>, <<"databases", DashedId, "query">>,
               <<"pages">>}

\* a POST to each path, and to the query of the database a GET, a preflight
\* and a POST whose body is not JSON
ProxyEvents ==
  {[httpMethod |-> "POST", bodyText |-> "json", body |-> [page_size |-> 5], path |-> p] :
     p \in ProxyPaths}
  \cup {[httpMethod |-> m, bodyText |-> "json", body |-> [page_size |-> 5],
         path |-> <<"databases", PlainId, "query">>] : m \in {"GET", "OPTIONS"}}
  \cup {[httpMethod |-> "POST", bodyText |-> "garbled", body |-> [page_size |-> 5],
         path |-> <<"databases", PlainId, "query">>]}

\* path.includes('databases') && path.includes(DATABASE_ID)
IsDatabasePath(path) ==
  path[1] = "databases" /\ Len(path) >= 2 /\ path[2] = DATABASE_ID

\* the request makeNotionRequest sends: the caller's method and path
ForwardedCall(event) == [method |-> event.httpMethod, path |-> event.path]

\* a call that asks the data source with that id
ToDataSource(event, ds) ==
  [method |-> event.httpMethod, path |-> <<"data_sources", ds, "query">>]

\* the catch of the proxy handler
ProxyFailure ==
  LambdaError(500, "Internal server error",
              "An unexpected error occurred while processing the request")

\* the handler from its entry to its first await
ProxyValidate(event) ==
  IF event.httpMethod = "OPTIONS"
  THEN Reply(200, [message |-> "CORS preflight"])
  ELSE IF event.bodyText = "garbled"
  THEN LambdaError(400, "Invalid JSON in request body", "SyntaxError")
  ELSE IF credential = "unset"
  THEN LambdaTokenFailure
  ELSE NoResponse

\* an invocation arrives and runs to its first await, secretsClient.send
ProxyInvoke(event) ==
  /\ module = LambdaProxy
  /\ BagCardinality(reqs) < MaxRequests
  /\ LET req == NewRequest(event)
         early == ProxyValidate(event)
     IN  reqs' = Arrived(reqs, IF early # NoResponse THEN Respond(req, early)
                              ELSE [req EXCEPT !.pc = "token"])
  /\ UNCHANGED <<module, credential, nodeEnv, dataSourceCache, lastResolved, probe>>

\* the handler once it holds the data source id: makeNotionRequest
ProxyForward(req, ds) ==
  Issue([req EXCEPT !.dataSourceId = ds], ForwardedCall(req.event), "act")

\* Secrets Manager answers; the handler goes on to getDataSourceId up to
\* its cache check
ProxyTokenReturn(req, ok) ==
  /\ module = LambdaProxy
  /\ req.pc = "token"
  /\ reqs' = Stepped(reqs, req,
                IF ~ok THEN Respond(req, LambdaTokenFailure)
                ELSE IF ~IsDatabasePath(req.event.path)
                THEN Respond(req, LambdaError(404, "Endpoint not found",
                                              "Path is not supported by this proxy"))
                ELSE IF CacheHas(dataSourceCache, DATABASE_ID)
                THEN ProxyForward([req EXCEPT !.cacheHit = TRUE],
                                  dataSourceCache[DATABASE_ID])
                ELSE Issue(req, GetDatabase(DATABASE_ID), "read"))
  /\ UNCHANGED <<module, credential, nodeEnv, dataSourceCache, lastResolved, probe>>

\* GET /databases/{DATABASE_ID} settles: getDataSourceId ends
ProxyReadReturn(req, o) ==
  /\ module = LambdaProxy
  /\ req.pc = "read"
  /\ LET res == ResolveFromRead(dataSourceCache, DATABASE_ID, o)
         got == [req EXCEPT !.read = o, !.thrown = res.thrown]
     IN  /\ dataSourceCache' = res.cache
         /\ reqs' = Stepped(reqs, req,
                       IF res.thrown # <<>> THEN Respond(got, ProxyFailure)
                       ELSE ProxyForward(got, res.dataSourceId))
         /\ lastResolved' =
              IF Resolves(o) /\ o.markup = Json /\ o.data_sources # <<>>
              THEN [k \in DOMAIN lastResolved \cup {DATABASE_ID} |->
                      IF k = DATABASE_ID THEN o.data_sources[1] ELSE lastResolved[k]]
              ELSE lastResolved
  /\ UNCHANGED <<module, credential, nodeEnv, probe>>

\* what the proxy answers with: the status and the body of the upstream
\* answer, with _metadata added when the body is an object
ProxyReply(req, o) ==
  IF ~HasResponse(o) THEN ProxyFailure
  ELSE IF o.markup = Json
  THEN Reply(o.status, [upstream |-> o,
                        _metadata |-> [database_id |-> DATABASE_ID,
                                       data_source_id |-> req.dataSourceId]])
  ELSE Reply(o.status, [upstream |-> o])

\* the forwarded request settles
ProxyActReturn(req, o) ==
  /\ module = LambdaProxy
  /\ req.pc = "act"
  /\ reqs' = Stepped(reqs, req, Respond([req EXCEPT !.act = o], ProxyReply(req, o)))
  /\ UNCHANGED <<module, credential, nodeEnv, dataSourceCache, lastResolved, probe>>

-----------------------------------------------------------------------------
(* The serverless API handlers: api/createPage.js, its multi-source        *)
(* variant, api/testConnection.js, api/queryDatabase.js, and what they use *)
(* of api/utils.js.  The repository holds three api/utils.js: one with a   *)
(* response interceptor and Notion-Version 2022-06-28, one for 2025-09-03  *)
(* whose safeNotionRequest looks the data source up, and one whose client  *)
(* accepts every status below 500.                                         *)

ApiCreate == "api/createPage"
ApiCreateCompat == "api/createPage (multi-source)"
ApiTest == "api/testConnection"
ApiTestLenient == "api/testConnection (validateStatus < 500)"
ApiQuery == "api/queryDatabase"
ApiQueryDs == "api/queryDatabase (2025-09-03)"
ApiCreateModules == {ApiCreate, ApiCreateCompat}
ApiTestModules == {ApiTest, ApiTestLenient}
ApiQueryModules == {ApiQuery, ApiQueryDs}
ApiModules == ApiCreateModules \cup ApiTestModules \cup ApiQueryModules

\* an Error object: what the handlers and sendError read of it
NewError(message) ==
  [message |-> message, isHtmlResponse |-> FALSE, code |-> "", status |-> 0,
   data |-> ""]

\* typeof data === 'string' && (data.includes('<!DOCTYPE html>') || data.includes('<html>'))
IsHtmlDocument(markup) == markup \in {"<!DOCTYPE html>", "<html>"}

\* the error axios rejects with, after createNotionClient's response interceptor
AxiosError(o) ==
  [message |-> <<"Request failed", o.status, o.code>>,
   isHtmlResponse |-> HasResponse(o) /\ IsHtmlDocument(o.markup),
   code |-> o.code, status |-> o.status, data |-> o.markup]

\* the error axios rejects with when the client has no interceptor
PlainAxiosError(o) == [AxiosError(o) EXCEPT !.isHtmlResponse = FALSE]

\* error.stack
Stack == "Error\n    at handler (file:///var/task/api/...)"

\* ...(process.env.NODE_ENV === 'development' && {stack: error.stack, ...})
WithStack(resp) ==
  IF nodeEnv = "development"
  THEN [resp EXCEPT !.body = [f \in DOMAIN @ \cup {"stack"} |->
                                IF f = "stack" THEN Stack ELSE @[f]]]
  ELSE resp

\* sendError of api/utils.js with the HTML and network cases
SendErrorMapped(error, statusCode) ==
  IF error.isHtmlResponse
  THEN Reply(502, [error |-> TRUE, statusCode |-> 502,
                   message |-> <<"Received HTML error page instead of JSON response. This may indicate API gateway issues or incorrect endpoint configuration.">>])
  ELSE IF error.code = "ECONNREFUSED"
  THEN Reply(503, [error |-> TRUE, statusCode |-> 503,
                   message |-> <<"Unable to connect to Notion API. Please check your internet connection and try again.">>])
  ELSE IF error.code = "ETIMEDOUT"
  THEN Reply(504, [error |-> TRUE, statusCode |-> 504,
                   message |-> <<"Request to Notion API timed out. Please try again.">>])
  ELSE IF error.status = 401
  THEN Reply(statusCode, [error |-> TRUE, statusCode |-> statusCode,
                   message |-> <<"Invalid Notion API key or insufficient permissions. Please check your integration setup.">>])
  ELSE IF error.status = 404
  THEN Reply(statusCode, [error |-> TRUE, statusCode |-> statusCode,
                   message |-> <<"Database not found or integration lacks access. Please verify your database ID and integration permissions.">>])
  ELSE Reply(statusCode, [error |-> TRUE, statusCode |-> statusCode,
                          message |-> error.message])

SendError(error, statusCode) == WithStack(SendErrorMapped(error, statusCode))

\* sendError of the api/utils.js that carries Notion-Version 2025-09-03
SendErrorPlain(error, statusCode) ==
  WithStack(Reply(statusCode, [error |-> TRUE, message |-> error.message]))

\* sendError of the api/utils.js whose client accepts every status below 500:
\* in development the stack goes under debug
SendErrorDebug(error, statusCode) ==
  WithStack(Reply(statusCode, [error |-> TRUE, message |-> error.message,
                               timestamp |-> "now", statusCode |-> statusCode]))

\* validateStatus: the statuses axios resolves the promise for
Accepts(mod, o) ==
  IF mod = ApiTestLenient THEN HasResponse(o) /\ o.status < 500 ELSE Resolves(o)

\* responseText.includes('<!doctype') || responseText.includes('<html')
IsHtmlText(markup) == ToLowerCase(markup) \in {"<!doctype html>", "<html>"}

\* createErrorHandler: what the rejected call is caught as
EnhancedAxiosError(o) ==
  IF HasResponse(o) /\ IsHtmlText(o.markup)
  THEN [message |-> <<"Received HTML response instead of JSON from Notion API. This usually indicates an authentication issue, wrong endpoint, or rate limiting.">>,
        isHtmlResponse |-> TRUE, code |-> "", status |-> o.status, data |-> o.markup]
  ELSE IF o.status = 401
  THEN [message |-> <<"Authentication failed. Please check your NOTION_API_KEY.">>,
        isHtmlResponse |-> FALSE, code |-> "", status |-> o.status, data |-> o.markup]
  ELSE IF o.status = 404
  THEN [message |-> <<"Database not found or integration lacks access. Please verify the database ID and ensure your integration has access to the database.">>,
        isHtmlResponse |-> FALSE, code |-> "", status |-> o.status, data |-> o.markup]
  ELSE IF o.status = 429
  THEN [message |-> <<"Rate limit exceeded. Please wait before making more requests.">>,
        isHtmlResponse |-> FALSE, code |-> "", status |-> o.status, data |-> o.markup]
  ELSE [message |-> <<"Request failed", o.status, o.code>>,
        isHtmlResponse |-> FALSE, code |-> o.code, status |-> o.status,
        data |-> o.markup]

\* sendSuccess
SendSuccess(data, statusCode) == Reply(statusCode, [error |-> FALSE, data |-> data])

\* handlePreflight: res.status(204).end()
Preflight == Reply(204, [end |-> TRUE])

\* validateNotionConfig's throw, caught by the handler's catch
ConfigError == NewError(<<"NOTION_API_KEY environment variable is not configured">>)

\* destructuring req.body when there is none
NoBodyError == NewError(<<"TypeError: Cannot destructure property of undefined">>)

\* the catch of api/createPage.js
ApiCreateCatch(error) ==
  IF error.isHtmlResponse
  THEN SendError(error, IF error.status # 0 THEN error.status ELSE 500)
  ELSE IF error.status # 0
  THEN IF error.status = 401
       THEN SendError(NewError(<<"Invalid Notion API key or insufficient permissions">>), 401)
       ELSE IF error.status = 404
       THEN SendError(NewError(<<"Database not found or integration lacks access">>), 404)
       ELSE IF error.status = 400
       THEN SendError(NewError(<<"notionError.message">>), 400)
       ELSE IF error.status >= 500
       THEN SendError(NewError(<<"Notion API server error - please try again later">>),
                      error.status)
       ELSE SendError(NewError(<<"notionError.message">>), error.status)
  ELSE IF error.code \in {"ECONNABORTED", "ETIMEDOUT"}
  THEN SendError(NewError(<<"Request timeout - Notion API is not responding">>), 408)
  ELSE IF error.code \in {"ENOTFOUND", "ECONNREFUSED"}
  THEN SendError(NewError(<<"Cannot connect to Notion API - please check your internet connection">>), 503)
  ELSE SendError(error, 500)

\* the catch of the multi-source api/createPage.js
ApiCreateCompatCatch(error) ==
  IF error.status # 0
  THEN IF error.status = 401
       THEN SendErrorPlain(NewError(<<"Invalid Notion API key">>), 401)
       ELSE IF error.status = 404
       THEN SendErrorPlain(NewError(<<"Database not found or integration lacks access">>), 404)
       ELSE IF error.status = 429
       THEN SendErrorPlain(NewError(<<"Rate limit exceeded. Please try again later.">>), 429)
       ELSE IF error.data = NullBody
       THEN Uncaught
       ELSE IF error.status = 400
       THEN SendErrorPlain(NewError(<<"notionError.message">>), 400)
       ELSE SendErrorPlain(NewError(<<"notionError.message">>), error.status)
  ELSE SendErrorPlain(error, 500)

\* sendError(res, error, statusCode) of the api/utils.js the module imports
ApiSend(mod, error, statusCode) ==
  IF mod \in {ApiCreateCompat, ApiQueryDs} THEN SendErrorPlain(error, statusCode)
  ELSE IF mod = ApiTestLenient THEN SendErrorDebug(error, statusCode)
  ELSE SendError(error, statusCode)

\* sendError(res, new Error(message), statusCode)
ApiReject(mod, message, statusCode) == ApiSend(mod, NewError(message), statusCode)

\* the catch of api/testConnection.js
ApiTestCatch(mod, error) ==
  IF error.isHtmlResponse
  THEN ApiReject(mod, <<"Received HTML instead of JSON from Notion API. This usually indicates an authentication problem or incorrect API endpoint. Please verify your NOTION_API_KEY.">>, 502)
  ELSE IF error.status # 0
  THEN IF error.status = 401
       THEN ApiReject(mod, <<"Authentication failed. Please verify your NOTION_API_KEY is correct and has not expired.">>, 401)
       ELSE IF error.status = 404
       THEN ApiReject(mod, <<"Database not found or integration lacks access. Please verify: 1) Database ID is correct, 2) Integration has access to the database, 3) Database exists and is not deleted.">>, 404)
       ELSE IF error.status = 429
       THEN ApiReject(mod, <<"Rate limit exceeded. Please wait a moment before retrying.">>, 429)
       ELSE IF error.status = 403
       THEN ApiReject(mod, <<"Access forbidden. Please ensure your integration has the correct permissions for this database.">>, 403)
       ELSE ApiReject(mod, <<"Notion API error (", error.status, "): ", "notionError.message">>,
                      error.status)
  ELSE IF error.code \in {"ENOTFOUND", "ECONNREFUSED"}
  THEN ApiReject(mod, <<"Network error: Unable to reach Notion API. Please check your internet connection.">>, 503)
  ELSE IF error.code = "ETIMEDOUT"
  THEN ApiReject(mod, <<"Request timeout: Notion API did not respond within 30 seconds.">>, 408)
  ELSE ApiReject(mod, error.message \o <<". Please check the logs for more details.">>, 500)

\* the catch of api/queryDatabase.js
ApiQueryCatch(mod, error) ==
  IF error.status # 0
  THEN IF error.status = 401
       THEN ApiReject(mod, <<"Invalid Notion API key">>, 401)
       ELSE IF error.status = 404
       THEN ApiReject(mod, <<"Database not found or integration lacks access">>, 404)
       ELSE IF error.data = NullBody
       THEN Uncaught
       ELSE IF error.status = 400
       THEN ApiReject(mod, <<"notionError.message || 'Invalid query parameters'">>, 400)
       ELSE ApiReject(mod, <<"notionError.message || 'Notion API error'">>, error.status)
  ELSE ApiSend(mod, error, 500)

ApiCatch(mod, error) ==
  IF mod = ApiCreate THEN ApiCreateCatch(error)
  ELSE IF mod = ApiCreateCompat THEN ApiCreateCompatCatch(error)
  ELSE IF mod \in ApiTestModules THEN ApiTestCatch(mod, error)
  ELSE ApiQueryCatch(mod, error)

\* the method the handler serves
ApiMethod(mod) == IF mod \in ApiTestModules THEN "GET" ELSE "POST"

\* the handler from its entry to its first await: every early return.  For
\* api/testConnection.js `body` is req.query
ApiValidate(mod, event) ==
  LET body == event.body
  IN  IF event.httpMethod = "OPTIONS"
      THEN Preflight
      ELSE IF event.httpMethod # ApiMethod(mod)
      THEN ApiReject(mod, <<"Method ", event.httpMethod, " not allowed">>, 405)
      ELSE IF event.bodyText = "missing"
      THEN ApiCatch(mod, NoBodyError)
      ELSE IF mod \in ApiTestModules /\ Falsy(body, "databaseId")
      THEN ApiReject(mod, <<"Missing required parameter: databaseId">>, 400)
      ELSE IF mod \in ApiQueryModules /\ Falsy(body, "databaseId")
      THEN ApiReject(mod, <<"Missing required field: databaseId">>, 400)
      ELSE IF mod \in ApiCreateModules
              /\ (Falsy(body, "databaseId") \/ ~Has(body, "properties"))
      THEN ApiReject(mod, <<"Missing required fields: databaseId, properties">>, 400)
      ELSE IF ~IsValidDatabaseId(body.databaseId)
      THEN IF mod \in ApiTestModules
           THEN ApiReject(mod, <<"Invalid database ID format. Expected 32 hexadecimal characters, got: ",
                                 Len(RemoveDashes(body.databaseId)), " characters">>, 400)
           ELSE ApiReject(mod, <<"Invalid database ID format">>, 400)
      ELSE IF mod \in ApiCreateModules /\ ~HasTitle(body.properties)
      THEN ApiReject(mod, <<"Title property is required">>, 400)
      ELSE IF credential \in {"unset", "empty"}
      THEN ApiCatch(mod, ConfigError)
      ELSE NoResponse

\* the id notion.get is called with: api/testConnection.js strips the dashes
ApiReadTarget(mod, id) == IF mod \in ApiTestModules THEN RemoveDashes(id) ELSE id

\* the error a rejected call is caught as
ApiAxiosError(mod, o) ==
  IF mod \in {ApiCreateCompat, ApiQueryDs} THEN PlainAxiosError(o)
  ELSE IF mod = ApiTestLenient THEN EnhancedAxiosError(o)
  ELSE AxiosError(o)

\* pageData of api/createPage.js
ApiCreateParent(ds) == [type |-> "data_source_id", data_source_id |-> ds]

\* a variant that names a data source in every parent, an empty one when
\* the read found none
ApiCompatParentAlwaysSource(id, o) ==
  [database_id |-> id,
   data_source_id |-> IF Resolves(o) /\ ~HasNoDataSources(o) THEN FirstDataSource(o) ELSE ""]

\* pageData.parent of the multi-source variant, after its inner try
ApiCompatParent(id, o) ==
  IF Resolves(o) /\ ~HasNoDataSources(o)
  THEN [database_id |-> id, data_source_id |-> FirstDataSource(o)]
  ELSE [database_id |-> id]

ApiEvents ==
  IF module \in ApiQueryModules
  THEN {e \in EventsOf(QueryBodies) : e.bodyText # "garbled"}
  ELSE IF module \in ApiTestModules
  THEN {[httpMethod |-> "GET", bodyText |-> "json", body |-> b] : b \in QueryBodies}
       \cup {[httpMethod |-> m, bodyText |-> "json", body |-> [databaseId |-> PlainId]] :
               m \in {"OPTIONS", "POST"}}
  ELSE {e \in EventsOf(CreateBodies) : e.bodyText # "garbled"}

\* POST /databases/{id}/query
PostDatabaseQuery(id) == [method |-> "POST", path |-> <<"databases", id, "query">>]

\* the handler's first await: notion.get, or for api/queryDatabase.js
\* safeNotionRequest(notion, 'post', '/databases/{id}/query'), which with
\* the 2025-09-03 api/utils.js reads the database first
ApiFirstCall(mod, req) ==
  LET id == req.event.body.databaseId
  IN  IF mod = ApiQuery THEN Issue(req, PostDatabaseQuery(id), "act")
      ELSE Issue(req, GetDatabase(ApiReadTarget(mod, id)), "read")

\* what safeNotionRequest throws, if it throws, once its call has settled
SafeRequestError(mod, o) ==
  IF ~Resolves(o) THEN ApiAxiosError(mod, o)
  ELSE IF mod = ApiQuery /\ IsHtmlDocument(o.markup)
  THEN [NewError(<<"Received HTML response instead of JSON from Notion API">>)
          EXCEPT !.isHtmlResponse = TRUE]
  ELSE NewError(<<>>)

SafeRequestThrows(mod, o) == SafeRequestError(mod, o) # NewError(<<>>)

Undefined == "undefined"

\* the data api/queryDatabase.js sends: results and next_cursor of response.data
QueryData(o) ==
  IF o.markup = Json
  THEN [results |-> UpstreamPage.results, next_cursor |-> UpstreamPage.next_cursor]
  ELSE [results |-> Undefined, next_cursor |-> Undefined]

\* a handler whose fallback reports its own failure: `throw fallbackError`
ApiQueryAfterReadOwnError(mod, req, o) ==
  LET got == [req EXCEPT !.read = o]
  IN  IF SafeRequestThrows(mod, o)
      THEN IF ~req.fallback /\ HasResponse(o) /\ o.status = 400
           THEN Issue([got EXCEPT !.fallback = TRUE, !.original = o],
                      GetDatabase(req.event.body.databaseId), "read")
           ELSE Finish(got, ApiQueryCatch(mod, SafeRequestError(mod, o)))
      ELSE IF HasNoDataSources(o)
      THEN Respond(got, ApiReject(mod, <<"Database has no data sources available">>, 400))
      ELSE Issue([got EXCEPT !.dataSourceId = FirstDataSource(o)],
                 PostQuery(FirstDataSource(o)), "act")

\* api/queryDatabase.js from the return of a database read
ApiQueryAfterRead(mod, req, o) ==
  LET got == [req EXCEPT !.read = o]
  IN  IF SafeRequestThrows(mod, o)
      THEN IF req.fallback
           THEN Finish(got, ApiQueryCatch(mod, ApiAxiosError(mod, req.original)))
           ELSE IF HasResponse(o) /\ o.status = 400
           THEN Issue([got EXCEPT !.fallback = TRUE, !.original = o],
                      GetDatabase(req.event.body.databaseId), "read")
           ELSE Finish(got, ApiQueryCatch(mod, SafeRequestError(mod, o)))
      ELSE IF HasNoDataSources(o)
      THEN IF req.fallback
           THEN Respond(got, ApiReject(mod, <<"Database has no data sources available">>, 400))
           ELSE Finish(got, ApiQueryCatch(mod,
                               NewError(<<"Database has no data sources available">>)))
      ELSE Issue([got EXCEPT !.dataSourceId = FirstDataSource(o)],
                 PostQuery(FirstDataSource(o)), "act")

\* api/queryDatabase.js from the return of a query
ApiQueryAfterAct(mod, req, o) ==
  LET got == [req EXCEPT !.act = o]
  IN  IF SafeRequestThrows(mod, o)
      THEN IF req.fallback
           THEN Finish(got, ApiQueryCatch(mod, ApiAxiosError(mod, req.original)))
           ELSE IF HasResponse(o) /\ o.status = 400
           THEN Issue([got EXCEPT !.fallback = TRUE, !.original = o],
                      GetDatabase(req.event.body.databaseId), "read")
           ELSE Finish(got, ApiQueryCatch(mod, SafeRequestError(mod, o)))
      ELSE Respond(got, SendSuccess(QueryData(o), 200))

\* a request arrives and runs to its first await
ApiInvoke(event) ==
  /\ module \in ApiModules
  /\ BagCardinality(reqs) < MaxApiRequests
  /\ LET req == NewRequest(event)
         early == ApiValidate(module, event)
     IN  reqs' = Arrived(reqs,
                   IF early # NoResponse THEN Respond(req, early)
                   ELSE ApiFirstCall(module, req))
  /\ UNCHANGED <<module, credential, nodeEnv, dataSourceCache, lastResolved, probe>>

\* the handler from the return of notion.get to its next await or its response
ApiAfterRead(mod, req, o) ==
  LET id == req.event.body.databaseId
      got == [req EXCEPT !.read = o]
  IN  IF mod \in ApiQueryModules
      THEN ApiQueryAfterRead(mod, req, o)
      ELSE IF mod = ApiCreateCompat
      THEN Issue([got EXCEPT !.dataSourceId =
                    IF Resolves(o) /\ ~HasNoDataSources(o) THEN FirstDataSource(o) ELSE ""],
                 PostPage(ApiCompatParent(id, o), req.event.body.properties), "act")
      ELSE IF ~Accepts(mod, o)
      THEN Finish(got, ApiCatch(mod, ApiAxiosError(mod, o)))
      ELSE IF mod \in ApiTestModules
      THEN IF o.status # 200
           THEN Finish(got, ApiCatch(mod, NewError(<<"Notion API returned status ",
                                                      o.status, ": statusText">>)))
           ELSE IF o.markup # Json
           THEN Finish(got, ApiCatch(mod, NewError(<<"Invalid response format from Notion API">>)))
           ELSE Respond(got, SendSuccess([id |-> "upstream", connection_status |-> "success"], 200))
      ELSE IF HasNoDataSources(o)
      THEN Respond(got, ApiReject(mod, <<"Database has no data sources available">>, 400))
      ELSE Issue([got EXCEPT !.dataSourceId = FirstDataSource(o)],
                 PostPage(ApiCreateParent(FirstDataSource(o)), req.event.body.properties),
                 "act")

\* GET /databases/{id} settles
ApiReadReturn(req, o) ==
  /\ module \in ApiModules
  /\ req.pc = "read"
  /\ reqs' = Stepped(reqs, req, ApiAfterRead(module, req, o))
  /\ UNCHANGED <<module, credential, nodeEnv, dataSourceCache, lastResolved, probe>>

\* the handler from the return of notion.post to its response
ApiActReply(mod, req, o) ==
  IF ~Resolves(o)
  THEN ApiCatch(mod, ApiAxiosError(mod, o))
  ELSE IF mod = ApiCreateCompat
  THEN SendSuccess([id |-> "upstream", api_version |-> "2025-09-03",
                    data_source_id |-> req.dataSourceId], 201)
  ELSE SendSuccess([id |-> "upstream"], 201)

\* the handler from the return of notion.post to its end
ApiAfterAct(mod, req, o) ==
  IF mod \in ApiQueryModules THEN ApiQueryAfterAct(mod, req, o)
  ELSE Finish([req EXCEPT !.act = o], ApiActReply(mod, req, o))

\* POST /pages settles
ApiActReturn(req, o) ==
  /\ module \in ApiModules
  /\ req.pc = "act"
  /\ reqs' = Stepped(reqs, req, ApiAfterAct(module, req, o))
  /\ UNCHANGED <<module, credential, nodeEnv, dataSourceCache, lastResolved, probe>>

-----------------------------------------------------------------------------
(* The process *)

Modules == LambdaModules \cup {LambdaProxy} \cup ApiModules

\* process.env.NODE_ENV; the Lambda handlers never read it
NodeEnvs == {"production", "development"}

\* the credential of the process: the token; nothing (NOTION_API_KEY, or
\* NOTION_API_SECRET_ARN for the Lambda handlers, is not set); or an empty
\* one (NOTION_API_KEY is '', or the secret of the Lambda handlers has no
\* notion_api_token or an empty one)
Credentials == {"configured", "unset", "empty"}

\* no function under test
NoProbe == [kind |-> "none"]

Init ==
  /\ module \in Modules
  /\ credential \in Credentials
  /\ nodeEnv \in IF module \in ApiModules THEN NodeEnvs ELSE {"production"}
  /\ dataSourceCache = EmptyCache
  /\ lastResolved = EmptyCache
  /\ reqs = EmptyBag
  /\ probe = NoProbe

Requests == BagToSet(reqs)

Next ==
  \/ \E e \in LambdaEvents : LambdaInvoke(e)
  \/ \E r \in Requests, ok \in BOOLEAN : LambdaTokenReturn(r, ok)
  \/ \E r \in Requests, o \in ReadOutcomes : LambdaReadReturn(r, o)
  \/ \E r \in Requests, o \in ActOutcomes : LambdaActReturn(r, o)
  \/ \E e \in ApiEvents : ApiInvoke(e)
  \/ \E r \in Requests, o \in ApiReadOutcomes : ApiReadReturn(r, o)
  \/ \E r \in Requests, o \in ApiActOutcomes : ApiActReturn(r, o)
  \/ \E e \in ProxyEvents : ProxyInvoke(e)
  \/ \E r \in Requests, ok \in BOOLEAN : ProxyTokenReturn(r, ok)
  \/ \E r \in Requests, o \in ReadOutcomes : ProxyReadReturn(r, o)
  \/ \E r \in Requests, o \in ActOutcomes : ProxyActReturn(r, o)

Spec == Init /\ [][Next]_vars

-----------------------------------------------------------------------------
(* The database-id check applied to strings.  `probe` holds the string, the
   verdict of the check on it, the kind of the edit that produced the string
   and the verdict on the string before that edit. *)

\* edits made to a string
MaxEdits == 2

\* the strings the edits start from
IdSeeds == {PlainId, DashedId, ShortId, NotAnId, EmptyId}

\* where a string is edited
EditPositions(s) == {i \in {1, 3, 9, Len(s)} : i >= 1 /\ i <= Len(s)}

\* where a dash goes in: after that many characters
DashPositions(s) == {i \in {0, 1, 8, Len(s)} : i <= Len(s)}

\* the letter in its other case; any other character is itself
OtherCase(ch) ==
  CASE ch = "a" -> "A" [] ch = "b" -> "B" [] ch = "c" -> "C"
    [] ch = "d" -> "D" [] ch = "e" -> "E" [] ch = "f" -> "F"
    [] ch = "A" -> "a" [] ch = "B" -> "b" [] ch = "C" -> "c"
    [] ch = "D" -> "d" [] ch = "E" -> "e" [] ch = "F" -> "f"
    [] OTHER -> ch

\* the string, with the verdict of the handlers' check on it
Checked(s, edits, last, before) ==
  [kind |-> "id", s |-> s, edits |-> edits, last |-> last, before |-> before,
   verdict |-> IsValidDatabaseId(s)]

InitIds ==
  /\ module = ApiQuery
  /\ credential = "configured"
  /\ nodeEnv = "production"
  /\ dataSourceCache = EmptyCache
  /\ lastResolved = EmptyCache
  /\ reqs = EmptyBag
  /\ \E s \in IdSeeds : probe = Checked(s, 0, "none", IsValidDatabaseId(s))

\* the string after an edit, checked
Edited(s, last) ==
  /\ probe.edits < MaxEdits
  /\ probe' = Checked(s, probe.edits + 1, last, probe.verdict)
  /\ UNCHANGED <<module, credential, nodeEnv, dataSourceCache, reqs, lastResolved>>

\* a dash goes in after i characters
InsertDash(i) ==
  /\ i \in DashPositions(probe.s)
  /\ Edited(SubSeq(probe.s, 1, i) \o <<"-">> \o SubSeq(probe.s, i + 1, Len(probe.s)),
            "dash")

\* the dash at i comes out
RemoveDash(i) ==
  /\ i \in 1..Len(probe.s)
  /\ probe.s[i] = "-"
  /\ Edited(SubSeq(probe.s, 1, i - 1) \o SubSeq(probe.s, i + 1, Len(probe.s)), "dash")

\* the letter at i changes case
SwapCase(i) ==
  /\ i \in EditPositions(probe.s)
  /\ OtherCase(probe.s[i]) # probe.s[i]
  /\ Edited([probe.s EXCEPT ![i] = OtherCase(@)], "case")

\* every letter changes case
SwapCases ==
  /\ \E i \in 1..Len(probe.s) : OtherCase(probe.s[i]) # probe.s[i]
  /\ Edited([i \in 1..Len(probe.s) |-> OtherCase(probe.s[i])], "case")

\* the character at i becomes ch
ReplaceChar(i, ch) ==
  /\ i \in EditPositions(probe.s)
  /\ probe.s[i] # ch
  /\ Edited([probe.s EXCEPT ![i] = ch], "other")

\* the character at i comes out, dashes excepted
RemoveChar(i) ==
  /\ i \in EditPositions(probe.s)
  /\ probe.s[i] # "-"
  /\ Edited(SubSeq(probe.s, 1, i - 1) \o SubSeq(probe.s, i + 1, Len(probe.s)), "other")

\* ch goes on the end
AppendChar(ch) == Edited(Append(probe.s, ch), "other")

NextIds ==
  \/ \E i \in 0..(IdLength + MaxEdits + 4) : InsertDash(i)
  \/ \E i \in 1..(IdLength + MaxEdits + 4) : RemoveDash(i)
  \/ \E i \in 1..(IdLength + MaxEdits + 4) : SwapCase(i)
  \/ SwapCases
  \/ \E i \in 1..(IdLength + MaxEdits + 4), ch \in {"g", "0", "F"} : ReplaceChar(i, ch)
  \/ \E i \in 1..(IdLength + MaxEdits + 4) : RemoveChar(i)
  \/ \E ch \in {"9", "B", "z", "\n"} : AppendChar(ch)

SpecIds == InitIds /\ [][NextIds]_vars

-----------------------------------------------------------------------------
(* validateNotionConfig applied to the environment.  `probe` holds
   process.env.NOTION_API_KEY, the key the module read when it was loaded,
   the api/utils.js in use, and the environment and outcome of the last
   call. *)

\* process.env.NOTION_API_KEY: deleted, or set to a string
Absent == [set |-> FALSE, value |-> <<>>]
Present(key) == [set |-> TRUE, value |-> key]

\* 'secret_'
SecretPrefix == <<"s", "e", "c", "r", "e", "t", "_">>

\* the keys of test/test.js, 'secret_test123' and 'invalid_key', with the
\* empty string, the prefix alone, a prefix cut short, one in capitals and a
\* key that has the prefix further in
ApiKeys ==
  {SecretPrefix \o <<"t", "e", "s", "t", "1", "2", "3">>,
   <<"i", "n", "v", "a", "l", "i", "d", "_", "k", "e", "y">>,
   <<>>,
   SecretPrefix,
   <<"s", "e", "c", "r", "e", "t">>,
   <<"S", "E", "C", "R", "E", "T", "_", "x">>,
   <<"n", "t", "n", "_">> \o SecretPrefix}

Environments == {Absent} \cup {Present(k) : k \in ApiKeys}

\* String.prototype.startsWith
StartsWith(str, prefix) ==
  Len(str) >= Len(prefix) /\ SubSeq(str, 1, Len(prefix)) = prefix

\* !NOTION_API_KEY
NoKey(env) == ~env.set \/ env.value = <<>>

\* api/utils.js reads the key into a constant when the module is loaded; the
\* utils that has getNotionApiKey reads it at every call
UtilsAtLoad == "api/utils.js"
UtilsAtCall == "api/utils.js (getNotionApiKey)"
UtilsVariants == {UtilsAtLoad, UtilsAtCall}

NotConfigured == "Error: NOTION_API_KEY environment variable is not configured"
InvalidFormat == "Error: Invalid NOTION_API_KEY format. Key should start with \"secret_\""
Returned == "returned"

\* validateNotionConfig(): what it throws, or that it returned
ValidateNotionConfig(utils, env, loaded) ==
  IF utils = UtilsAtLoad
  THEN IF NoKey(loaded) THEN NotConfigured ELSE Returned
  ELSE IF NoKey(env) THEN NotConfigured
       ELSE IF ~StartsWith(env.value, SecretPrefix) THEN InvalidFormat
       ELSE Returned

InitConfig ==
  /\ module = ApiQuery
  /\ credential = "configured"
  /\ nodeEnv = "production"
  /\ dataSourceCache = EmptyCache
  /\ lastResolved = EmptyCache
  /\ reqs = EmptyBag
  /\ \E u \in UtilsVariants, e \in Environments :
       probe = [kind |-> "config", utils |-> u, env |-> e, loaded |-> e,
                asked |-> Absent, outcome |-> "none"]

\* process.env.NOTION_API_KEY = key
SetEnv(key) ==
  /\ probe.env # Present(key)
  /\ probe' = [probe EXCEPT !.env = Present(key)]
  /\ UNCHANGED <<module, credential, nodeEnv, dataSourceCache, reqs, lastResolved>>

\* delete process.env.NOTION_API_KEY
DeleteEnv ==
  /\ probe.env.set
  /\ probe' = [probe EXCEPT !.env = Absent]
  /\ UNCHANGED <<module, credential, nodeEnv, dataSourceCache, reqs, lastResolved>>

\* validateNotionConfig() is called
Validate ==
  /\ probe' = [probe EXCEPT !.asked = probe.env,
                            !.outcome = ValidateNotionConfig(probe.utils, probe.env,
                                                             probe.loaded)]
  /\ UNCHANGED <<module, credential, nodeEnv, dataSourceCache, reqs, lastResolved>>

NextConfig ==
  \/ \E k \in ApiKeys : SetEnv(k)
  \/ DeleteEnv
  \/ Validate

SpecConfig == InitConfig /\ [][NextConfig]_vars

-----------------------------------------------------------------------------
(* Properties *)

\* upstream reads of the database an invocation has issued
ReadCount(req) == Cardinality({i \in 1..Len(req.calls) : IsRead(req.calls[i])})

\* upstream creates or queries an invocation has issued
ActCount(req) == Cardinality({i \in 1..Len(req.calls) : IsAct(req.calls[i])})

\* getDataSourceId has returned or thrown in this invocation
Resolved(req) == req.cacheHit \/ req.read # NoOutcome

\* this step is invocation x of a Lambda handler entering getDataSourceId,
\* and y is x after the step
BeginsResolution(x, y) ==
  /\ x \in BagToSet(reqs) /\ x.pc = "token"
  /\ y \in BagToSet(reqs') /\ y.pc \in {"read", "act"}
  /\ reqs' = Stepped(reqs, x, y)

\* the database id an invocation resolves: the one its body names (the empty
\* string when it names none), and the proxy's constant DATABASE_ID
DatabaseIdOf(req) ==
  IF module = LambdaProxy THEN DATABASE_ID
  ELSE IF Has(req.event.body, "databaseId") THEN req.event.body.databaseId
  ELSE EmptyId

SameDatabase(f, x) == DatabaseIdOf(f) = DatabaseIdOf(x)

\* C1 as stated: whenever a resolution of an id begins after another
\* resolution of that id has ended, it is answered from the cache without a
\* read, so that the two together issued exactly one GET /databases/{id}
C1_AnySecondResolutionIsCached ==
  [][\A x \in BagToSet(reqs), y \in BagToSet(reqs') :
       BeginsResolution(x, y) =>
         \A f \in BagToSet(reqs) :
           (Resolved(f) /\ SameDatabase(f, x)) =>
             /\ y.cacheHit
             /\ ReadCount(f) + ReadCount(y) = (IF f.cacheHit THEN 0 ELSE 1)]_vars

\* C1 amended: whenever a resolution of an id begins after a resolution of
\* that id has succeeded, it takes the cached id and issues no read, so that
\* the two together issued exactly one GET /databases/{id}; and an invocation
\* answered from the cache never reads the database
C1_SecondResolutionAfterSuccessIsCached ==
  /\ [][\A x \in BagToSet(reqs), y \in BagToSet(reqs') :
          BeginsResolution(x, y) =>
            \A f \in BagToSet(reqs) :
              (Resolved(f) /\ f.dataSourceId # "" /\ SameDatabase(f, x)) =>
                /\ y.cacheHit
                /\ y.dataSourceId = dataSourceCache[DatabaseIdOf(x)]
                /\ ReadCount(f) + ReadCount(y) = (IF f.cacheHit THEN 0 ELSE 1)]_vars
  /\ [](\A q \in BagToSet(reqs) : q.cacheHit => ReadCount(q) = 0)

\* two finished invocations for one id: the first read the database once, the
\* second was answered from the cache
C1_Witness ==
  \E f, y \in BagToSet(reqs) :
    /\ f.pc = "done" /\ y.pc = "done" /\ SameDatabase(f, y)
    /\ ~f.cacheHit /\ f.dataSourceId # "" /\ ReadCount(f) = 1
    /\ y.cacheHit /\ ReadCount(y) = 0

\* this step is the database read of invocation x settling, and y is x after
\* the step
ReadReturns(x, y) ==
  /\ x \in BagToSet(reqs) /\ x.pc = "read"
  /\ y \in BagToSet(reqs') /\ y.pc # "read" /\ y.read # NoOutcome
  /\ reqs' = Stepped(reqs, x, y)

NoDataSource == <<"No data sources available for this database">>

\* the read succeeded and listed no data source
ReadFoundNone(req) ==
  Resolves(req.read) /\ req.read.markup = Json /\ req.read.data_sources = <<>>

\* C2 as stated: when the database read of a resolution succeeds with an
\* empty data-source list, the resolution fails with NoDataSource and the
\* cache then has no entry for that database id
C2_EmptyListLeavesNoEntry ==
  [][\A x \in BagToSet(reqs), y \in BagToSet(reqs') :
       (module \in LambdaModules /\ ReadReturns(x, y) /\ ReadFoundNone(y)) =>
         /\ y.thrown = NoDataSource
         /\ ~CacheHas(dataSourceCache', DatabaseIdOf(x))]_vars

\* C2 amended: when the database read of a resolution succeeds with an empty
\* data-source list, the resolution fails with NoDataSource, resolves no id,
\* makes no further call, and leaves the cache exactly as it was
C2_EmptyListCachesNothing ==
  [][\A x \in BagToSet(reqs), y \in BagToSet(reqs') :
       (module \in LambdaModules /\ ReadReturns(x, y) /\ ReadFoundNone(y)) =>
         /\ y.thrown = NoDataSource
         /\ y.dataSourceId = "" /\ y.pc = "done" /\ ActCount(y) = 0
         /\ dataSourceCache' = dataSourceCache]_vars

\* a resolution has failed on an empty list, and the cache has no entry for
\* its database id
C2_Witness ==
  \E q \in BagToSet(reqs) :
    /\ module \in LambdaModules /\ q.pc = "done"
    /\ ReadFoundNone(q) /\ q.thrown = NoDataSource
    /\ ~CacheHas(dataSourceCache, DatabaseIdOf(q))

\* C3 as stated: once the cache holds an entry for a database id, no step of
\* the process removes the entry or changes its value
C3_EntryNeverChanges ==
  [][\A k \in DOMAIN dataSourceCache :
       /\ k \in DOMAIN dataSourceCache'
       /\ dataSourceCache'[k] = dataSourceCache[k]]_vars

\* C3 amended: an entry of the cache is never removed, and its value changes
\* only when a read of that id settles that was already in flight, issued by
\* an invocation that missed the cache
C3_EntryStaysAndOnlyInFlightReadsRewrite ==
  [][\A k \in DOMAIN dataSourceCache :
       /\ k \in DOMAIN dataSourceCache'
       /\ dataSourceCache'[k] # dataSourceCache[k] =>
            \E x \in BagToSet(reqs), y \in BagToSet(reqs') :
              /\ ReadReturns(x, y) /\ DatabaseIdOf(x) = k /\ ~x.cacheHit
              /\ dataSourceCache'[k] = FirstDataSource(y.read)]_vars

\* two invocations read the same id while it was not cached and resolved
\* different data sources; the cache holds one of them
C3_Witness ==
  \E f, g \in BagToSet(reqs) :
    /\ module \in LambdaModules /\ SameDatabase(f, g)
    /\ ~f.cacheHit /\ ~g.cacheHit
    /\ f.dataSourceId = "ds_1" /\ g.dataSourceId = "ds_2"
    /\ CacheHas(dataSourceCache, DatabaseIdOf(f))

\* the read succeeded and listed at least one data source
ReadFoundSome(req) ==
  Resolves(req.read) /\ req.read.markup = Json /\ req.read.data_sources # <<>>

\* C4: resolutions of one id that overlap do not wait for or fail because of
\* one another: a read in flight can always settle, each invocation that
\* read resolves the first data source of its own read and fails exactly
\* when its own read failed or listed none, and the cache holds for each id
\* what the resolution that stored last has read
C4_OverlappingResolutionsLastWriteWins ==
  module \in LambdaModules =>
    /\ \A q \in BagToSet(reqs) :
         /\ q.pc = "read" => ENABLED (\E o \in ReadOutcomes : LambdaReadReturn(q, o))
         /\ (q.read # NoOutcome /\ ReadFoundSome(q)) =>
              q.dataSourceId = q.read.data_sources[1] /\ q.thrown = <<>>
         /\ (q.read # NoOutcome /\ ~ReadFoundSome(q)) =>
              q.dataSourceId = "" /\ q.thrown # <<>>
         /\ q.read = NoOutcome => q.thrown = <<>>
    /\ dataSourceCache = lastResolved

\* two invocations each read the same uncached id; the one that settled
\* last resolved ds_2, the other ds_1, and the cache holds ds_2
C4_Witness ==
  \E f, g \in BagToSet(reqs) :
    /\ module \in LambdaModules /\ SameDatabase(f, g)
    /\ f.pc = "done" /\ g.pc = "done"
    /\ ReadCount(f) = 1 /\ ReadCount(g) = 1
    /\ f.dataSourceId = "ds_1" /\ g.dataSourceId = "ds_2"
    /\ dataSourceCache[DatabaseIdOf(f)] = "ds_2"

-----------------------------------------------------------------------------

\* the handlers that resolve the data source before they act
ResolvingModules == {LambdaCreate, LambdaQuery, ApiCreate}

CreateModules == {LambdaCreate, ApiCreate, ApiCreateCompat}

Creates(req) == {req.calls[i] : i \in {j \in 1..Len(req.calls) : IsCreate(req.calls[j])}}

\* a read issued in this process for the same id listed ds first
WasFirstDataSource(ds, q) ==
  \E f \in BagToSet(reqs) :
    SameDatabase(f, q) /\ ReadFoundSome(f) /\ f.read.data_sources[1] = ds

\* C6 as stated: every POST /pages has a parent of type data_source_id whose
\* id is the first data source returned for the invocation's database id,
\* and no parent names the database id
C6_ParentIsAlwaysDataSource ==
  \A q \in BagToSet(reqs) : \A c \in Creates(q) :
    /\ DOMAIN c.data.parent = {"type", "data_source_id"}
    /\ c.data.parent.type = "data_source_id"
    /\ WasFirstDataSource(c.data.parent.data_source_id, q)

\* C6 amended: in lambda-create-page.js and api/createPage.js every POST
\* /pages has the parent {type: data_source_id, data_source_id} whose id is
\* the first data source of the invocation's own read, or on a cache hit
\* the first data source of an earlier read of that id; the multi-source
\* variant of api/createPage.js always names the database id in the parent
\* and adds the first data source of its own read when the read listed one
C6_ParentPerHandler ==
  \A q \in BagToSet(reqs) : \A c \in Creates(q) :
    IF module = ApiCreateCompat
    THEN /\ c.data.parent.database_id = DatabaseIdOf(q)
         /\ IF ReadFoundSome(q)
            THEN /\ DOMAIN c.data.parent = {"database_id", "data_source_id"}
                 /\ c.data.parent.data_source_id = q.read.data_sources[1]
            ELSE DOMAIN c.data.parent = {"database_id"}
    ELSE /\ DOMAIN c.data.parent = {"type", "data_source_id"}
         /\ c.data.parent.type = "data_source_id"
         /\ IF q.cacheHit
            THEN WasFirstDataSource(c.data.parent.data_source_id, q)
            ELSE ReadFoundSome(q)
                 /\ c.data.parent.data_source_id = q.read.data_sources[1]

\* a create whose read listed ds_2 before ds_1 has posted a page under ds_2
C6_Witness ==
  \E q \in BagToSet(reqs) : \E c \in Creates(q) :
    /\ module \in {LambdaCreate, ApiCreate}
    /\ ~q.cacheHit /\ q.read.data_sources = <<"ds_2", "ds_1">>
    /\ c.data.parent.data_source_id = "ds_2"

\* C7: an invocation of a create handler sends at most one POST /pages,
\* whatever the POST settles with: once it has settled the invocation is
\* over
C7_AtMostOneCreate ==
  \A q \in BagToSet(reqs) :
    /\ Cardinality({i \in 1..Len(q.calls) : IsCreate(q.calls[i])}) <= 1
    /\ (module \in CreateModules /\ q.act # NoOutcome) => q.pc \in {"done", "rejected"}

\* a create whose POST failed is over, having sent that one POST
C7_Witness ==
  \E q \in BagToSet(reqs) :
    /\ module \in CreateModules /\ q.pc = "done"
    /\ q.act # NoOutcome /\ ~Resolves(q.act)
    /\ Cardinality({i \in 1..Len(q.calls) : IsCreate(q.calls[i])}) = 1

\* the 32 hexadecimal characters, dashes aside, of a database id
ThirtyTwoHex(s) ==
  LET digits == SelectSeq(s, LAMBDA ch : ch # "-")
  IN  Len(digits) = 32 /\ \A i \in 1..32 : digits[i] \in HexDigits

\* the invocation came with the method its handler serves and a parsed body
WellFormed(req) ==
  /\ req.event.httpMethod = (IF module \in ApiTestModules THEN "GET" ELSE "POST")
  /\ req.event.bodyText = "json"

\* the response names the format of the database id as its error
SaysInvalidDatabaseId(resp) ==
  IF module \in LambdaModules
  THEN resp.body.error = "Invalid database ID format"
  ELSE resp.body.message[1] \in
         {"Invalid database ID format",
          "Invalid database ID format. Expected 32 hexadecimal characters, got: "}

\* C8 as stated: a request whose databaseId is not 32 hexadecimal characters
\* after its dashes are removed is answered with the error Invalid database
\* ID format, and no upstream call is made for it
C8_InvalidIdAlwaysNamedInvalid ==
  \A q \in BagToSet(reqs) :
    (WellFormed(q) /\ Has(q.event.body, "databaseId")
       /\ ~ThirtyTwoHex(q.event.body.databaseId)) =>
      /\ q.pc = "done" /\ q.calls = <<>>
      /\ q.response.statusCode = 400 /\ SaysInvalidDatabaseId(q.response)

\* C8 amended: no invocation whose databaseId is absent, empty or not 32
\* hexadecimal characters after its dashes are removed makes any upstream
\* call or reads the credential; the answer is 400 Invalid database ID
\* format when the id is non-empty and the handler's earlier checks (method,
\* body, required fields present) have passed
C8_InvalidIdRejectedBeforeAnyCall ==
  \A q \in BagToSet(reqs) :
    ~ThirtyTwoHex(DatabaseIdOf(q)) =>
      /\ q.pc = "done" /\ q.calls = <<>>
      /\ (WellFormed(q) /\ DatabaseIdOf(q) # EmptyId
            /\ (module \in CreateModules => Has(q.event.body, "properties"))) =>
           (q.response.statusCode = 400 /\ SaysInvalidDatabaseId(q.response))

\* an invocation with a 31-digit id has been answered Invalid database ID
\* format without any call
C8_Witness ==
  \E q \in BagToSet(reqs) :
    /\ WellFormed(q) /\ DatabaseIdOf(q) = ShortId
    /\ q.pc = "done" /\ q.calls = <<>>
    /\ q.response.statusCode = 400 /\ SaysInvalidDatabaseId(q.response)

\* C9 as stated: a create request whose property map has no property of
\* type title is answered 400 and no network call is made
C9_NoTitleTypedPropertyRejected ==
  module \in CreateModules =>
    \A q \in BagToSet(reqs) :
      (WellFormed(q) /\ Has(q.event.body, "properties")
         /\ \A e \in q.event.body.properties : e.type # "title") =>
        (q.pc = "done" /\ q.calls = <<>> /\ q.response.statusCode = 400)

\* C9 amended: a create request whose property map has no property named
\* Title is answered 400 with no network call and no read of the
\* credential, whatever the types of its properties; the error is Title
\* property is required when the database id is a valid one
C9_NoPropertyNamedTitleRejected ==
  module \in CreateModules =>
    \A q \in BagToSet(reqs) :
      (WellFormed(q) /\ Has(q.event.body, "properties")
         /\ \A e \in q.event.body.properties : e.name # "Title") =>
        /\ q.pc = "done" /\ q.calls = <<>> /\ q.response.statusCode = 400
        /\ ThirtyTwoHex(DatabaseIdOf(q)) =>
             IF module \in LambdaModules
             THEN q.response.body.error = "Title property is required"
             ELSE q.response.body.message = <<"Title property is required">>

\* a create request with a valid id and a title-typed property named Name
\* has been answered Title property is required without any call
C9_Witness ==
  \E q \in BagToSet(reqs) :
    /\ module \in CreateModules /\ WellFormed(q)
    /\ Has(q.event.body, "properties") /\ q.event.body.properties = NameAsTitle
    /\ ThirtyTwoHex(DatabaseIdOf(q))
    /\ q.pc = "done" /\ q.calls = <<>> /\ q.response.statusCode = 400

\* C10: an invocation that ends at its database read because the read was
\* answered 401 or 404 responds with that status: 401 Unauthorized, 404
\* NotFound
C10_ReadFailureKeepsItsStatus ==
  \A q \in BagToSet(reqs) :
    (q.pc = "done" /\ q.act = NoOutcome /\ q.read.kind = "response"
       /\ q.read.markup = Json /\ q.read.status \in {401, 404}) =>
      q.response.statusCode = q.read.status

-----------------------------------------------------------------------------

QueryModules == {LambdaQuery} \cup ApiQueryModules

\* the response is an error that speaks of the absence of data sources
SaysNoDataSources(resp) ==
  IF module \in LambdaModules
  THEN resp.body.details = "Could not access database or database has no data sources"
  ELSE resp.body.error /\ resp.body.message = <<"Database has no data sources available">>

\* C11: a query whose database read succeeded with an empty data-source
\* list ends with status 400 and an error that speaks of the absence of
\* data sources
C11_EmptyListAnswered400 ==
  module \in QueryModules =>
    \A q \in BagToSet(reqs) :
      (q.read.kind = "response" /\ q.read.status = 200 /\ q.read.markup = Json
         /\ q.read.data_sources = <<>>) =>
        /\ q.pc = "done"
        /\ q.response.statusCode = 400
        /\ SaysNoDataSources(q.response)

\* the messages of the handlers that hold the word Invalid or Unauthorized
InvalidOrUnauthorized ==
  {<<"Invalid Notion API key">>,
   <<"Invalid Notion API key or insufficient permissions">>,
   <<"Invalid Notion API key or insufficient permissions. Please check your integration setup.">>}

\* C12: a connection test whose database read was answered 401 ends with
\* status 401 and an error envelope whose message holds Invalid or
\* Unauthorized
C12_Read401Answered401 ==
  module \in ApiTestModules =>
    \A q \in BagToSet(reqs) :
      (q.read.kind = "response" /\ q.read.status = 401) =>
        /\ q.pc = "done"
        /\ q.response.statusCode = 401
        /\ q.response.body.error
        /\ q.response.body.message \in InvalidOrUnauthorized

\* the body is {error: false, data}
IsSuccessEnvelope(resp) ==
  /\ {"error", "data"} \subseteq DOMAIN resp.body
  /\ resp.body.error = FALSE

\* the body is {error: true, message} with a message that is not empty
IsErrorEnvelope(resp) ==
  /\ {"error", "message"} \subseteq DOMAIN resp.body
  /\ resp.body.error = TRUE
  /\ resp.body.message # <<>>

\* C13: a connection test succeeds only when its database read listed a
\* data source: a read that succeeded with an empty list ends in an error
\* that speaks of the absence of data sources
C13_TestSucceedsOnlyWithDataSource ==
  module \in ApiTestModules =>
    \A q \in BagToSet(reqs) :
      /\ (q.pc = "done" /\ IsSuccessEnvelope(q.response)) => ReadFoundSome(q)
      /\ ReadFoundNone(q) =>
           (q.pc = "done" /\ IsErrorEnvelope(q.response)
              /\ SaysNoDataSources(q.response))

\* the upstream calls of the request that were answered with a body that
\* starts with '<!doctype html>'
LowerCaseHtmlAnswers(req) ==
  {o \in {req.read, req.act} : HasResponse(o) /\ o.markup = LowerHtmlPage}

LastOutcome(req) ==
  IF IsRead(req.calls[Len(req.calls)]) THEN req.read ELSE req.act

\* the codes a call that exceeded the timeout is rejected with
TimeoutCodes == {"ETIMEDOUT", "ECONNABORTED"}

\* the last upstream call of the request exceeded the timeout
TimedOut(req) ==
  /\ Len(req.calls) > 0
  /\ LastOutcome(req).kind = "error"
  /\ LastOutcome(req).code \in TimeoutCodes

\* C15: a request whose upstream call exceeded the request timeout is
\* answered with an error envelope of status 504.
C15_TimeoutAnswered504 ==
  \A q \in BagToSet(reqs) :
    (q.pc = "done" /\ TimedOut(q)) =>
      (IsErrorEnvelope(q.response) /\ q.response.statusCode = 504)

\* the handler is suspended at an await on an upstream call or on the token
Awaiting(req) == req.pc \in {"token", "read", "act"}

\* C16: every invocation ends with exactly one response: a request is either
\* still awaiting an upstream answer with nothing sent, or it has ended with
\* one response sent; it never ends with an exception instead of a response
\* and never sends a second response.
C16_ExactlyOneResponse ==
  \A q \in BagToSet(reqs) :
    /\ q.sent <= 1
    /\ q.pc # "rejected"
    /\ Awaiting(q) => q.sent = 0
    /\ ~Awaiting(q) => (q.pc = "done" /\ q.sent = 1 /\ q.response # NoResponse)

\* C17 as stated: every response of every handler is the envelope
\* {error: boolean, message?, data?}, error:false with the payload under data
\* or error:true with a message.
C17_EveryResponseIsEnvelope ==
  \A q \in BagToSet(reqs) :
    q.pc = "done" => (IsSuccessEnvelope(q.response) \/ IsErrorEnvelope(q.response))

\* C17: every response of a handler under api/ to a request other than the
\* preflight is the envelope: with a status below 400 it is error:false with
\* the payload under data, with a status of 400 or more it is error:true
\* with a message that is not empty; the preflight is answered 204 without
\* a body.
C17_ApiResponsesAreEnvelopes ==
  module \in ApiModules =>
    \A q \in BagToSet(reqs) :
      q.pc = "done" =>
        IF q.event.httpMethod = "OPTIONS"
        THEN q.response = Preflight
        ELSE IF q.response.statusCode < 400
        THEN IsSuccessEnvelope(q.response) /\ q.response.statusCode \in {200, 201}
        ELSE IsErrorEnvelope(q.response) /\ ~Has(q.response.body, "data")

\* a handler under api/ has answered a query or a create with its payload
C17_Witness ==
  \E q \in BagToSet(reqs) :
    /\ module \in ApiModules /\ q.pc = "done" /\ q.act # NoOutcome
    /\ IsSuccessEnvelope(q.response)

\* what a response carries as its payload: the data of the envelope, or the
\* body itself
Payload(resp) == IF Has(resp.body, "data") THEN resp.body.data ELSE resp.body

\* the query of the request was answered by the upstream with a page of results
QuerySucceeded(req) ==
  /\ req.pc = "done" /\ req.act # NoOutcome
  /\ Resolves(req.act) /\ req.act.markup = Json
  /\ req.response.statusCode = 200

\* C18: a successful QueryRecords response carries the result list, the
\* pagination cursor and the has-more flag the upstream query returned.
C18_QueryReturnsCursorAndHasMore ==
  module \in QueryModules =>
    \A q \in BagToSet(reqs) :
      QuerySucceeded(q) =>
        /\ {"results", "next_cursor", "has_more"} \subseteq DOMAIN Payload(q.response)
        /\ Payload(q.response).results = UpstreamPage.results
        /\ Payload(q.response).next_cursor = UpstreamPage.next_cursor
        /\ Payload(q.response).has_more = UpstreamPage.has_more

\* the character in lower case
LowerCased(ch) ==
  IF ch \in {"A", "B", "C", "D", "E", "F"} THEN OtherCase(ch) ELSE ch

\* C19: the check accepts a string exactly when what is left of it without
\* its dashes is 32 characters long and each of them, in lower case, is one
\* of 0-9 and a-f; an edit that only moves, adds or removes dashes, or only
\* changes the case of letters, leaves the verdict as it was.
C19_AcceptsExactly32HexAfterDashes ==
  probe.kind = "id" =>
    LET rest == SelectSeq(probe.s, LAMBDA ch : ch # "-")
    IN  /\ probe.verdict =
             (/\ Len(rest) = 32
              /\ \A i \in 1..Len(rest) :
                   LowerCased(rest[i]) \in {"0", "1", "2", "3", "4", "5", "6", "7", "8", "9",
                                            "a", "b", "c", "d", "e", "f"})
        /\ probe.last \in {"dash", "case"} => probe.verdict = probe.before

\* a string with dashes and capital letters in it was accepted, and one that
\* lost a character was refused
C19_Witness ==
  /\ probe.kind = "id" /\ probe.verdict /\ probe.edits = MaxEdits
  /\ \E i \in 1..Len(probe.s) : probe.s[i] = "-"
  /\ \E i \in 1..Len(probe.s) : probe.s[i] \in {"A", "B", "C", "D", "E", "F"}

\* C20: a call of validateNotionConfig() throws exactly when the key the
\* environment held at the call was absent or did not start with 'secret_',
\* and returns otherwise.
C20_ThrowsExactlyOnAbsentOrUnprefixedKey ==
  (probe.kind = "config" /\ probe.outcome # "none") =>
    ((probe.outcome # Returned) <=>
       (~probe.asked.set \/ ~StartsWith(probe.asked.value, SecretPrefix)))

\* the response reports the configuration of the credential as its error
SaysConfigurationError(resp) ==
  /\ resp.statusCode = 500
  /\ IF module \in LambdaModules
     THEN resp.body.error = "Authentication configuration error"
     ELSE IsErrorEnvelope(resp) /\ resp.body.message[1] = ConfigError.message[1]

\* the request was answered, and not by the validation of its input
AnsweredPastValidation(req) ==
  WellFormed(req) /\ req.pc = "done" /\ req.response.statusCode # 400

\* C21: with no token available, absent or empty, a handler sends no upstream
\* request, and a request that passed validation is answered with the
\* configuration error.
C21_NoCallWithoutCredential ==
  credential # "configured" =>
    \A q \in BagToSet(reqs) :
      /\ q.calls = <<>>
      /\ AnsweredPastValidation(q) => SaysConfigurationError(q.response)

\* the response hands the caller the body of a failed upstream response as it
\* was received
CarriesUpstreamErrorBody(resp) ==
  /\ Has(resp.body, "upstream")
  /\ resp.body.upstream.status >= 400

\* C22: outside development mode no response to a caller contains a stack
\* trace or the raw body of a failed upstream response.
C22_NoInternalDetailOutsideDevelopment ==
  nodeEnv # "development" =>
    \A q \in BagToSet(reqs) :
      q.pc = "done" =>
        /\ ~Has(q.response.body, "stack")
        /\ ~CarriesUpstreamErrorBody(q.response)

\* the handlers under api/ and the create and query Lambda handlers keep to
\* C22: their error bodies carry a stack only in development mode and never
\* the upstream body
C22_StackOnlyInDevelopment ==
  module # LambdaProxy =>
    \A q \in BagToSet(reqs) :
      q.pc = "done" =>
        /\ Has(q.response.body, "stack") => nodeEnv = "development"
        /\ ~Has(q.response.body, "upstream")

\* an api/ handler in development mode has answered an error with its stack
C22_Witness ==
  \E q \in BagToSet(reqs) :
    /\ module \in ApiModules /\ nodeEnv = "development"
    /\ q.pc = "done" /\ Has(q.response.body, "stack")

\* two spellings of one database id: equal once their dashes are removed
SameNormalizedId(a, b) == RemoveDashes(a) = RemoveDashes(b)

\* C23: the resolver cache is keyed by the database id with its dashes
\* removed: a resolution that begins while the cache holds an entry stored
\* under any spelling of its id is a cache hit that issues no upstream read.
C23_CacheKeyedByNormalizedId ==
  [][\A x \in BagToSet(reqs), y \in BagToSet(reqs') :
       (/\ BeginsResolution(x, y)
        /\ \E k \in DOMAIN dataSourceCache : SameNormalizedId(k, DatabaseIdOf(x))) =>
         y.cacheHit /\ ReadCount(y) = 0]_vars

\* the dashed spelling of an id is cached and an invocation naming the
\* undashed spelling has begun its resolution
C23_Witness ==
  \E q \in BagToSet(reqs) :
    /\ DashedId \in DOMAIN dataSourceCache
    /\ DatabaseIdOf(q) = PlainId
    /\ q.pc \in {"read", "act"}

\* C24: in the createPage handler that supports multi-source databases, an
\* invocation whose database read failed or listed no data source goes on to
\* POST /pages with the parent {database_id} alone, and is answered 201 when
\* that call succeeds.
C24_ReadFailureFallsBackToDatabaseParent ==
  module = ApiCreateCompat =>
    \A q \in BagToSet(reqs) :
      (q.read # NoOutcome /\ ~ReadFoundSome(q)) =>
        /\ Len(q.calls) = 2
        /\ q.calls[2] = PostPage([database_id |-> DatabaseIdOf(q)], q.event.body.properties)
        /\ (q.pc = "done" /\ Resolves(q.act) /\ q.act.markup = Json) =>
             (q.response.statusCode = 201 /\ IsSuccessEnvelope(q.response))

\* a page was created under the plain database parent after the read of the
\* database had failed
C24_Witness ==
  \E q \in BagToSet(reqs) :
    /\ module = ApiCreateCompat
    /\ q.read # NoOutcome /\ ~Resolves(q.read)
    /\ q.pc = "done" /\ q.response.statusCode = 201
    /\ q.calls[2].data.parent = [database_id |-> DatabaseIdOf(q)]

\* the last call the fallback of the query handler made has failed
FallbackCallFailed(req) ==
  /\ req.fallback /\ req.pc \in {"done", "rejected"}
  /\ SafeRequestThrows(module, LastOutcome(req))

\* C25: the query handler enters its data-source fallback only on a direct
\* query that failed with status 400, which it keeps as the original error;
\* when a call of the fallback fails, the caller is answered 400 from that
\* original error and not from the failure of the fallback.
C25_FallbackOnlyOn400AndOriginalErrorReported ==
  /\ [][\A x \in BagToSet(reqs), y \in BagToSet(reqs') :
          (module \in ApiQueryModules /\ reqs' = Stepped(reqs, x, y)
             /\ ~x.fallback /\ y.fallback) =>
            /\ y.original = (IF y.read # x.read THEN y.read ELSE y.act)
            /\ HasResponse(y.original) /\ y.original.status = 400
            /\ y.pc = "read" /\ y.calls = Append(x.calls, GetDatabase(DatabaseIdOf(x)))]_vars
  /\ [](module \in ApiQueryModules =>
          \A q \in BagToSet(reqs) :
            /\ ~q.fallback => Len(q.calls) <= (IF module = ApiQuery THEN 1 ELSE 2)
            /\ q.fallback => q.original.status = 400
            /\ FallbackCallFailed(q) =>
                 /\ q.pc = "done"
                 /\ q.response.statusCode = q.original.status
                 /\ IsErrorEnvelope(q.response))

\* the direct query failed with 400, the database read of the fallback failed
\* with another status, and the caller was answered 400
C25_Witness ==
  \E q \in BagToSet(reqs) :
    /\ module \in ApiQueryModules
    /\ FallbackCallFailed(q)
    /\ LastOutcome(q).status # 400
    /\ q.pc = "done" /\ q.response.statusCode = 400

\* the cache has the same entry, or the same absence of one, for id k after
\* the step as before it
EntryUntouched(k) ==
  /\ (k \in DOMAIN dataSourceCache) = (k \in DOMAIN dataSourceCache')
  /\ k \in DOMAIN dataSourceCache => dataSourceCache'[k] = dataSourceCache[k]

\* C26: a resolution touches no cache entry but that of its own database id,
\* and only when its read listed a data source: a step in which a read fails
\* (an error status, a network error, an empty or unreadable list) leaves the
\* whole cache as it was.
C26_ResolutionTouchesOnlyItsOwnEntry ==
  [][/\ \A k \in DOMAIN dataSourceCache \cup DOMAIN dataSourceCache' :
          ~EntryUntouched(k) =>
            \E x \in BagToSet(reqs), y \in BagToSet(reqs') :
              ReadReturns(x, y) /\ DatabaseIdOf(x) = k /\ ReadFoundSome(y)
     /\ \A x \in BagToSet(reqs), y \in BagToSet(reqs') :
          (ReadReturns(x, y) /\ ~ReadFoundSome(y)) =>
            /\ dataSourceCache' = dataSourceCache
            /\ module \in LambdaModules \cup {LambdaProxy} => y.thrown # <<>>]_vars

\* a resolution has failed while the cache held the entry of another id,
\* which is still there
C26_Witness ==
  \E q \in BagToSet(reqs) :
    /\ q.read # NoOutcome /\ ~ReadFoundSome(q) /\ q.thrown # <<>>
    /\ \E k \in DOMAIN dataSourceCache : k # DatabaseIdOf(q)

\* the calls the proxy forwarded for an invocation: all but the database read
\* of its resolution
Forwarded(req) ==
  LET sent == IF req.cacheHit \/ req.calls = <<>> THEN req.calls ELSE Tail(req.calls)
  IN  {sent[i] : i \in 1..Len(sent)}

\* C27: every database request the proxy forwards is addressed to the data
\* source resolved for the configured database, not to the database path of
\* the caller.
C27_ProxyForwardsToDataSource ==
  module = LambdaProxy =>
    \A q \in BagToSet(reqs) : \A c \in Forwarded(q) :
      /\ c = ToDataSource(q.event, q.dataSourceId)
      /\ c.path # q.event.path

\* the proxy resolved a data source and has forwarded a database query
C27_Witness ==
  \E q \in BagToSet(reqs) :
    /\ module = LambdaProxy
    /\ q.dataSourceId # "" /\ Forwarded(q) # {}
    /\ q.event.path[1] = "databases"

-----------------------------------------------------------------------------
(* GET /api/health (api/health.js).  `probe` holds the environment of the
   process (the key, the api/utils.js in use, whether axios and cors can be
   imported), the current heap reading, and the last request with the heap
   reading it saw and its response. *)

\* maxMemory of the handler, in MiB; heap readings are in MiB as well
MaxMemoryMiB == 512

\* process.memoryUsage().heapUsed: low, just under and just over 80% of
\* maxMemory, and all of it
HeapReadings == {64, 409, 410, 512}

\* memoryPercent > 80
MemoryHigh(heapUsed) == heapUsed * 100 > 80 * MaxMemoryMiB

\* health.status after the notion_config, dependencies and memory checks
HealthStatus(configOutcome, imports, heapUsed) ==
  LET afterConfig == IF configOutcome # Returned THEN "degraded" ELSE "ok"
      afterImports == IF ~imports THEN "error" ELSE afterConfig
  IN  IF MemoryHigh(heapUsed)
      THEN IF afterImports = "error" THEN "error" ELSE "warning"
      ELSE afterImports

\* the handler of api/health.js from its entry to its response
HealthHandler(method, configOutcome, imports, heapUsed) ==
  IF method = "OPTIONS" THEN Preflight
  ELSE IF method # "GET"
  THEN Reply(405, [error |-> TRUE, message |-> <<"Method ", method, " not allowed">>])
  ELSE LET status == HealthStatus(configOutcome, imports, heapUsed)
       IN  Reply(IF status \in {"ok", "warning"} THEN 200 ELSE 503,
                 [status |-> status,
                  checks |-> [notion_config |-> IF configOutcome # Returned
                                                THEN "error" ELSE "ok",
                              dependencies |-> IF imports THEN "ok" ELSE "error",
                              memory |-> IF MemoryHigh(heapUsed) THEN "warning" ELSE "ok"],
                  troubleshooting |-> status # "ok"])

InitHealth ==
  /\ module = ApiQuery
  /\ credential = "configured"
  /\ nodeEnv = "production"
  /\ dataSourceCache = EmptyCache
  /\ lastResolved = EmptyCache
  /\ reqs = EmptyBag
  /\ \E u \in UtilsVariants, e \in Environments, i \in BOOLEAN, h \in HeapReadings :
       probe = [kind |-> "health", utils |-> u, env |-> e, imports |-> i,
                heapUsed |-> h, method |-> "none", seen |-> 0, response |-> NoResponse]

\* the heap grows or shrinks between requests
HeapChanges(h) ==
  /\ probe.heapUsed # h
  /\ probe' = [probe EXCEPT !.heapUsed = h]
  /\ UNCHANGED <<module, credential, nodeEnv, dataSourceCache, reqs, lastResolved>>

\* a request to /api/health is served
HealthRequest(method) ==
  /\ probe' = [probe EXCEPT
                 !.method = method, !.seen = probe.heapUsed,
                 !.response = HealthHandler(method,
                                ValidateNotionConfig(probe.utils, probe.env, probe.env),
                                probe.imports, probe.heapUsed)]
  /\ UNCHANGED <<module, credential, nodeEnv, dataSourceCache, reqs, lastResolved>>

NextHealth ==
  \/ \E h \in HeapReadings : HeapChanges(h)
  \/ \E m \in {"GET", "POST", "OPTIONS"} : HealthRequest(m)

SpecHealth == InitHealth /\ [][NextHealth]_vars

\* the last request was a GET and this check of its answer reports an error
CheckFailed(check) ==
  /\ probe.method = "GET"
  /\ probe.response.body.checks[check] = "error"

\* C28: the health endpoint answers 200 only when neither the check of the
\* Notion configuration nor the check of the dependencies failed: when either
\* failed, the reported status is not ok and the HTTP code is 503, whatever
\* the memory reading.
C28_FailedCheckAnswered503 ==
  (CheckFailed("notion_config") \/ CheckFailed("dependencies")) =>
    /\ probe.response.body.status # "ok"
    /\ probe.response.statusCode = 503

\* a GET was answered while the configuration check failed and the heap was
\* above 80% of the limit
C28_Witness ==
  /\ CheckFailed("notion_config")
  /\ MemoryHigh(probe.seen)

-----------------------------------------------------------------------------
(* HealthMonitor, the monitoring script.  `probe` holds the monitor object
   (endpoints, alertThreshold, failureCount), the statuses and the alerts of
   the last checkAll(), and for every endpoint the number of runs in a row,
   up to the last, in which it was not ok. *)

MaxRuns == 4

DEFAULT_ENDPOINTS ==
  <<"https://your-app.vercel.app", "https://your-function.cloudfunctions.net",
    "https://your-lambda.amazonaws.com">>

\* the endpoints handed to the constructor: none, one, two, and one that is
\* named twice (--endpoint and MONITOR_ENDPOINTS are concatenated)
EndpointLists ==
  {<<>>, <<"https://a">>, <<"https://a", "https://b">>, <<"https://a", "https://a">>}

\* options.alertThreshold: 0 stands for an option that is absent or 0
AlertOptions == {0, 1, 2}

\* result.status of checkEndpoint
Statuses == {"ok", "error", "timeout"}

\* the constructor
HealthMonitor(endpoints, alertOption) ==
  [endpoints |-> IF Len(endpoints) > 0 THEN endpoints ELSE DEFAULT_ENDPOINTS,
   alertThreshold |-> IF alertOption # 0 THEN alertOption ELSE 3,
   failureCount |-> EmptyCache]

\* the loop of checkAll over its results: the failure counts and the
\* consecutive_failures alerts it ends with
RECURSIVE CheckResults(_, _, _, _)
CheckResults(results, alertThreshold, failureCount, alerts) ==
  IF results = <<>>
  THEN [failureCount |-> failureCount, alerts |-> alerts]
  ELSE LET result == Head(results)
           currentFailures == IF result.endpoint \in DOMAIN failureCount
                              THEN failureCount[result.endpoint] ELSE 0
           failures == IF result.status = "ok" THEN 0 ELSE currentFailures + 1
       IN  CheckResults(Tail(results), alertThreshold,
                        [e \in DOMAIN failureCount \cup {result.endpoint} |->
                           IF e = result.endpoint THEN failures ELSE failureCount[e]],
                        IF result.status # "ok" /\ failures >= alertThreshold
                        THEN Append(alerts, [type |-> "consecutive_failures",
                                             endpoint |-> result.endpoint,
                                             count |-> failures])
                        ELSE alerts)

\* the endpoints of a monitor, as a set
Monitored(monitor) == {monitor.endpoints[i] : i \in 1..Len(monitor.endpoints)}

InitMonitor ==
  /\ module = ApiQuery
  /\ credential = "configured"
  /\ nodeEnv = "production"
  /\ dataSourceCache = EmptyCache
  /\ lastResolved = EmptyCache
  /\ reqs = EmptyBag
  /\ \E list \in EndpointLists, option \in AlertOptions :
       LET monitor == HealthMonitor(list, option)
       IN  probe = [kind |-> "monitor", monitor |-> monitor, runs |-> 0,
                    status |-> [e \in Monitored(monitor) |-> "none"],
                    alerts |-> <<>>,
                    streak |-> [e \in Monitored(monitor) |-> 0]]

\* one checkAll(): every endpoint is asked and answers with a status, the
\* same for each request to it in this run
CheckAll(status) ==
  /\ probe.runs < MaxRuns
  /\ LET monitor == probe.monitor
         results == [i \in 1..Len(monitor.endpoints) |->
                       [endpoint |-> monitor.endpoints[i],
                        status |-> status[monitor.endpoints[i]]]]
         after == CheckResults(results, monitor.alertThreshold, monitor.failureCount, <<>>)
     IN  probe' = [probe EXCEPT
                     !.monitor.failureCount = after.failureCount,
                     !.runs = @ + 1,
                     !.status = status,
                     !.alerts = after.alerts,
                     !.streak = [e \in DOMAIN @ |->
                                   IF status[e] = "ok" THEN 0 ELSE @[e] + 1]]
  /\ UNCHANGED <<module, credential, nodeEnv, dataSourceCache, reqs, lastResolved>>

NextMonitor ==
  \E status \in [Monitored(probe.monitor) -> Statuses] : CheckAll(status)

SpecMonitor == InitMonitor /\ [][NextMonitor]_vars

\* the last run raised a consecutive_failures alert for the endpoint
Alerted(endpoint) ==
  \E i \in 1..Len(probe.alerts) :
    /\ probe.alerts[i].type = "consecutive_failures"
    /\ probe.alerts[i].endpoint = endpoint

\* C29: a run of checkAll raises a consecutive_failures alert for an endpoint
\* exactly when the endpoint was not ok in that run and the runs right before
\* it, at least alertThreshold runs in a row; an ok result puts the count of
\* the endpoint back to zero.
C29_AlertExactlyAtThresholdInARow ==
  probe.runs > 0 =>
    \A e \in Monitored(probe.monitor) :
      /\ Alerted(e) <=> probe.streak[e] >= probe.monitor.alertThreshold
      /\ probe.status[e] = "ok" => probe.monitor.failureCount[e] = 0

\* for a monitor whose endpoints are all different the alerts are as C29
\* says, and the count of an endpoint is the number of runs in a row in which
\* it was not ok
C29_DistinctEndpointsAlertAtThreshold ==
  (probe.runs > 0 /\ Cardinality(Monitored(probe.monitor)) = Len(probe.monitor.endpoints)) =>
    \A e \in Monitored(probe.monitor) :
      /\ Alerted(e) <=> probe.streak[e] >= probe.monitor.alertThreshold
      /\ probe.monitor.failureCount[e] = probe.streak[e]

\* an endpoint was not ok three runs in a row and the third run alerted
C29_Witness ==
  \E e \in Monitored(probe.monitor) :
    /\ probe.monitor.alertThreshold = 3
    /\ probe.streak[e] = 3 /\ Alerted(e)

-----------------------------------------------------------------------------
(* The GitHub-issue flow (createPage.js at the root of the repository).
   `probe` holds the environment and the parsed issue, the position of
   main(), the result of createNotionPage, whether main is in its catch, and
   the issue on GitHub: its state and the comments it has received. *)

\* parseIssueBody(issueBody): the fields found in the body
IssueData ==
  {[caseTitle |-> "Smith v. Jones"],
   [caseTitle |-> "Smith v. Jones", priority |-> "High"],
   [caseNumber |-> "2024-CV-001"],
   [caseTitle |-> "Smith v. Jones", caseNumber |-> "2024-CV-001"]}

\* an awaited octokit call resolves, or rejects (a status outside 2xx, no
\* answer)
GitHubOutcomes == {"ok", "failed"}

\* the payload of createNotionPage: the title and the optional properties
IssuePayload(data) ==
  [parent |-> [database_id |-> "NOTION_DATABASE_ID"],
   properties |->
     [f \in {"Title"} \cup (DOMAIN data \ {"caseTitle"}) |->
        IF f = "Title"
        THEN IF Has(data, "caseTitle") THEN data.caseTitle ELSE "Untitled Case"
        ELSE data[f]]]

\* updateIssueWithResult up to its first await: issues.update for a success,
\* issues.createComment with the error comment otherwise
UpdateIssueWithResult(p, success) ==
  IF success THEN [p EXCEPT !.pc = "close"]
  ELSE [p EXCEPT !.pc = "comment", !.comment = "error"]

\* the catch of main: the error comment, then process.exit(1)
IssueCatch(p) == UpdateIssueWithResult([p EXCEPT !.caught = TRUE], FALSE)

InitIssue ==
  /\ module = ApiQuery
  /\ credential = "configured"
  /\ nodeEnv = "production"
  /\ dataSourceCache = EmptyCache
  /\ lastResolved = EmptyCache
  /\ reqs = EmptyBag
  /\ \E args \in BOOLEAN, env \in BOOLEAN, data \in IssueData :
       probe = [kind |-> "issue", args |-> args, env |-> env, data |-> data,
                pc |-> "start", payload |-> <<>>, posted |-> NoOutcome,
                success |-> FALSE, caught |-> FALSE, comment |-> "none",
                state |-> "open", comments |-> <<>>, exitCode |-> -1]

\* main() up to its first await: the two checks, parseIssueBody, and the
\* POST /pages of createNotionPage
IssueMain ==
  /\ probe.pc = "start"
  /\ probe' = IF ~probe.args \/ ~probe.env
              THEN [probe EXCEPT !.pc = "exit", !.exitCode = 1]
              ELSE [probe EXCEPT !.pc = "notion", !.payload = IssuePayload(probe.data)]
  /\ UNCHANGED <<module, credential, nodeEnv, dataSourceCache, reqs, lastResolved>>

\* POST /pages settles: createNotionPage returns its result and
\* updateIssueWithResult runs to its first await
IssueNotionReturn(o) ==
  /\ probe.pc = "notion"
  /\ probe' = UpdateIssueWithResult([probe EXCEPT !.posted = o, !.success = Resolves(o)],
                                    Resolves(o))
  /\ UNCHANGED <<module, credential, nodeEnv, dataSourceCache, reqs, lastResolved>>

\* issues.update({state: 'closed'}) settles
IssueCloseReturn(g) ==
  /\ probe.pc = "close"
  /\ probe' = IF g = "ok"
              THEN [probe EXCEPT !.state = "closed", !.pc = "comment", !.comment = "success"]
              ELSE IssueCatch(probe)
  /\ UNCHANGED <<module, credential, nodeEnv, dataSourceCache, reqs, lastResolved>>

\* issues.createComment settles: main ends, or enters its catch, or rejects
\* from within its catch
IssueCommentReturn(g) ==
  /\ probe.pc = "comment"
  /\ probe' = IF g = "ok"
              THEN [probe EXCEPT !.comments = Append(@, probe.comment), !.pc = "exit",
                                 !.exitCode = IF probe.caught THEN 1 ELSE 0]
              ELSE IF probe.caught
              THEN [probe EXCEPT !.pc = "exit", !.exitCode = 1]
              ELSE IssueCatch(probe)
  /\ UNCHANGED <<module, credential, nodeEnv, dataSourceCache, reqs, lastResolved>>

NextIssue ==
  \/ IssueMain
  \/ \E o \in ActOutcomes : IssueNotionReturn(o)
  \/ \E g \in GitHubOutcomes : IssueCloseReturn(g)
  \/ \E g \in GitHubOutcomes : IssueCommentReturn(g)

SpecIssue == InitIssue /\ [][NextIssue]_vars

\* the script has ended after it had asked Notion for the page
Processed == probe.pc = "exit" /\ probe.posted # NoOutcome

\* the issue has received the comment
Commented(comment) ==
  \E i \in 1..Len(probe.comments) : probe.comments[i] = comment

\* C30: when the script has ended, the issue is closed if and only if the
\* Notion page was created; when the creation failed, the issue is open and
\* has received an error comment.
C30_ClosedIffPageCreated ==
  Processed =>
    /\ probe.state = "closed" <=> Resolves(probe.posted)
    /\ ~Resolves(probe.posted) => (probe.state = "open" /\ Commented("error"))

\* the issue is closed only after the page was created, and an issue whose
\* page was not created is never closed; with every call to GitHub resolved
\* the claim holds
C30_ClosedOnlyIfPageCreated ==
  /\ probe.state = "closed" => Resolves(probe.posted)
  /\ (Processed /\ ~probe.caught) =>
       /\ probe.state = "closed" <=> Resolves(probe.posted)
       /\ Commented(IF Resolves(probe.posted) THEN "success" ELSE "error")

\* the page was created, the issue is still open and carries the error comment
C30_Witness ==
  /\ Processed /\ Resolves(probe.posted)
  /\ probe.state = "open" /\ Commented("error")

=============================================================================
